---- MODULE Spec2Model ----
(***************************************************************************)
(* Resumable upload engine of Cally99/resumable-upload-frontend.           *)
(*                                                                         *)
(* The store is the zustand store of src/unnamed/part_002 (schema version  *)
(* 5, the one that has the ui namespace, getUIState, getIsResuming and     *)
(* setResuming that the engine calls); the engine is the uploadActions     *)
(* object of src/src/stores/uploadStore.js lines 422-813; the process-wide *)
(* handlers are those of src/src/index.js.                                 *)
(*                                                                         *)
(* Scheduling is single-threaded and cooperative: an action of this module *)
(* is the synchronous run of one async function from one suspension point  *)
(* (a network call or an IndexedDB call) to the next.  An await on a       *)
(* function that returns without I/O is not a suspension point here.       *)
(*                                                                         *)
(* The HTTP server is outside the repository.  It is modelled as a server  *)
(* that keeps, per upload id, the set of chunk indices it acknowledged and *)
(* a status; any request may fail.                                         *)
(***************************************************************************)
EXTENDS Integers, Sequences, FiniteSets, TLC

VARIABLES
  uploads,   \* MetaStore: uploadId -> record (the keys are the entries)
  ui,        \* MetaStore ui namespace: isOffline, isResuming, error
  onLine,    \* navigator.onLine
  blobs,     \* BlobStore (IndexedDB object store 'files'): set of keys
  putLog,    \* keys indexedDBService.storeFile was called with
  server,    \* server side: uploadId -> [status, chunks]
  tasks,     \* pending async calls: slot -> task
  ret,       \* how the async call that ended in the last step ended
  clock,     \* Date.now() ticks used / server ids assigned
  retry      \* a withRetry call followed attempt by attempt

vars == <<uploads, ui, onLine, blobs, putLog, server, tasks, ret, clock, retry>>

----------------------------------------------------------------------------
(* Bounds of the model *)

\* Number of async calls that can be pending at the same time.
MaxTasks == 2
\* Number of addUpload calls in a behaviour (temp ids and server ids used).
MaxAdds == 1
\* The size of the file a user selects is MaxHalfChunks * DefaultChunkSize / 2:
\* two chunks, the last one partial.
MaxHalfChunks == 3
\* Number of records the store holds when the page is loaded again.
MaxPersisted == 1
\* Number of records one pass of initAfterRehydrate goes through.
MaxRehydrated == 2
\* Number of records that are PAUSED when the client comes back online.
MaxPaused == 3
\* Number of PENDING records whose upload the user starts.
MaxStarted == 2
\* Number of records in the store clearStaleUploads is applied to.
MaxStale == 2
\* withRetry is called with retries in 0..MaxRetries.
MaxRetries == 6
\* Math.random() takes the values k / RandomSteps, k in 0..RandomSteps-1.
RandomSteps == 4

(* Program constants *)

\* chunkSize: 5242880 in initiateUpload
DefaultChunkSize == 5242880
\* withRetry's defaults: retries = 5, base = 1000, max = 30000
DefaultRetries == 5
BackoffBase == 1000
BackoffMax == 30000

----------------------------------------------------------------------------
(* Values *)

Slots == 1..MaxTasks

\* uploadStore.js:434 'temp_' + Date.now(); server ids are opaque strings.
TempId(n) == <<"temp_", n>>
ServerId(n) == <<"id_", n>>
NoId == <<"none", 0>>
TempIds == {TempId(n) : n \in 1..MaxAdds}
ServerIds == {ServerId(n) : n \in 1..MaxAdds}
Ids == TempIds \cup ServerIds

\* uploadId.startsWith('temp_')
startsWithTemp(id) == id[1] = "temp_"

\* uploadTypes.js UPLOAD_STATUS
INITIATING == "initiating"
PENDING == "pending"
UPLOADING == "uploading"
PAUSED == "paused"
COMPLETED == "completed"
FAILED == "failed"
CANCELED == "canceled"
UPLOAD_STATUS == {INITIATING, PENDING, UPLOADING, PAUSED, COMPLETED, FAILED, CANCELED}
\* the value of a field that an entry does not have
Undefined == "undefined"

Min(a, b) == IF a < b THEN a ELSE b

Range(s) == {s[i] : i \in 1..Len(s)}

\* Math.ceil(file.size / chunkSize)
Ceil(a, b) == (a + b - 1) \div b

\* The files a user can select: a name and a size (all support slice).
FileSizes == {(MaxHalfChunks * DefaultChunkSize) \div 2}
Files == [name : {"a"}, size : FileSizes, slice : {TRUE}]

\* typeof file.slice === 'function' && file.size !== 0
ValidFile(file) == file.slice /\ file.size # 0

\* Anything a caller can hand to initiateUpload: also an empty file and an
\* object without slice.
AnyFiles == [name : {"a"}, size : FileSizes \cup {0}, slice : BOOLEAN]
InvalidFiles == {file \in AnyFiles : ~ValidFile(file)}

----------------------------------------------------------------------------
(* withRetry, isRetryableError and backoffDelay (uploadStore.js 305-334) *)

\* error.response is missing: the request got no HTTP response.
NoResponse == 0

\* The HTTP statuses an error can carry.
ErrorStatuses == {400, 404, 407, 408, 409, 424, 425, 426, 428, 429, 430, 499, 500, 503, 599, 600}

\* isRetryableError that retries on every error.
isRetryableErrorAlways(status) == TRUE

\* isRetryableError (lines 305-314), on the status of the error
isRetryableError(status) ==
  IF status = NoResponse THEN TRUE
  ELSE IF status = 408 \/ status = 425 \/ status = 429 THEN TRUE
  ELSE IF status >= 500 /\ status < 600 THEN TRUE
  ELSE FALSE

\* backoffDelay without Math.min(max, ...).
backoffDelayUncapped(attempt, base, max, k) ==
  ((base * 2^attempt) * k) \div RandomSteps

\* backoffDelay (lines 317-320); Math.random() returns k / RandomSteps
backoffDelay(attempt, base, max, k) ==
  LET expo == Min(max, base * 2^attempt)
  IN (expo * k) \div RandomSteps

\* No withRetry call is followed.
NoRetry ==
  [ pc |-> "idle", fn |-> "none", retries |-> 0, attempt |-> 0, calls |-> 0,
    status |-> NoResponse, delay |-> 0 ]

----------------------------------------------------------------------------
(* MetaStore (src/unnamed/part_002) as operators on the uploads map *)

\* An entry without any field: what {...state.uploads[uploadId]} spreads
\* when the key is absent.  A number field that is undefined is 0 here.
Blank ==
  [ filename |-> Undefined, filesize |-> 0, chunkSize |-> 0, totalChunks |-> 0,
    status |-> Undefined, hasProgress |-> FALSE, uploadedChunks |-> <<>>,
    uploadedBytes |-> 0, progress |-> 0, file |-> FALSE, needsFile |-> FALSE,
    lastError |-> Undefined,
    \* new Date(createdAt).getTime() < Date.now() - 24 h; false for an entry
    \* without createdAt (NaN) and for one that addUpload has just created
    stale |-> FALSE ]

\* The key an entry gets when it is stored under a missing uploadId field.
UndefinedKey == <<"undefined", 0>>

\* getUpload(uploadId) !== null
Has(ups, id) == id \in DOMAIN ups

\* state.uploads[uploadId] spread into a new object
Entry(ups, id) == IF Has(ups, id) THEN ups[id] ELSE Blank

\* An entry that addUpload created: it has uploadId, filename, filesize, ...
HasCore(r) == r.filename # Undefined

Put(ups, id, r) == [k \in DOMAIN ups \cup {id} |-> IF k = id THEN r ELSE ups[k]]

Merge(r, updates) ==
  [f \in DOMAIN r |-> IF f \in DOMAIN updates THEN updates[f] ELSE r[f]]

\* updateUpload: no check that the entry exists
updateUpload(ups, id, updates) == Put(ups, id, Merge(Entry(ups, id), updates))

\* setUploadStatus: no check that the entry exists
setUploadStatus(ups, id, status) ==
  Put(ups, id, Merge(Entry(ups, id), [status |-> status]))

\* removeUpload of the store (the BlobStore delete is part of the actions)
removeUpload(ups, id) == [k \in DOMAIN ups \ {id} |-> ups[k]]

\* chunkEnd - chunkStart of updateProgress
ChunkBytes(chunkIndex, chunkSize, filesize) ==
  Min(chunkIndex * chunkSize + chunkSize, filesize) - chunkIndex * chunkSize

RECURSIVE SumBytes(_, _, _)
SumBytes(chunks, chunkSize, filesize) ==
  IF chunks = <<>> THEN 0
  ELSE ChunkBytes(Head(chunks), chunkSize, filesize)
       + SumBytes(Tail(chunks), chunkSize, filesize)

\* Math.min((actualUploadedBytes / filesize) * 100, 100), in whole percent
\* (rounded down); NaN (filesize undefined) is 0 here.
ProgressOf(bytes, filesize) ==
  IF filesize = 0 THEN 0 ELSE Min((bytes * 100) \div filesize, 100)

\* [...uploadedChunks].sort((a, b) => a - b)
SortChunks(chunks) == SortSeq(chunks, LAMBDA a, b : a < b)

\* updateProgress: no check that the entry exists
updateProgress(ups, id, uploadedChunks, chunkSize, filesize) ==
  LET actualUploadedBytes == SumBytes(uploadedChunks, chunkSize, filesize)
  IN Put(ups, id, Merge(Entry(ups, id),
       [ hasProgress |-> TRUE,
         uploadedChunks |-> SortChunks(uploadedChunks),
         uploadedBytes |-> actualUploadedBytes,
         progress |-> ProgressOf(actualUploadedBytes, filesize) ]))

\* addUpload of the store: the entry is replaced, not merged
addUpload(ups, id, upload) == Put(ups, id, Merge(Blank, upload))

\* markAllUploadingAsPaused: the new entry is stored under u.uploadId, which
\* an entry that addUpload did not create does not have.
markAllUploadingAsPaused(ups, reason) ==
  LET hit == {k \in DOMAIN ups : ups[k].status = UPLOADING}
      paused(r) == Merge(r, [status |-> PAUSED, lastError |-> reason])
      keyOf(k) == IF HasCore(ups[k]) THEN k ELSE UndefinedKey
      lost == {k \in hit : ~HasCore(ups[k])}
  IN [k \in DOMAIN ups \cup {keyOf(h) : h \in hit} |->
        IF k \in hit /\ HasCore(ups[k]) THEN paused(ups[k])
        ELSE IF k = UndefinedKey /\ lost # {}
             THEN paused(ups[CHOOSE h \in lost : TRUE])
        ELSE ups[k]]

----------------------------------------------------------------------------
(* Pending async calls *)

NoFile == [name |-> "", size |-> 0, slice |-> FALSE]
NoResp == [kind |-> "none", status |-> "", chunks |-> <<>>]

\* A slot without a pending call.
Idle ==
  [ op |-> "idle", id |-> NoId, pc |-> "idle",
    chunkIndex |-> 0,      \* the chunk loop's chunkIndex
    totalChunks |-> 0,     \* upload.totalChunks read before the loop
    snap |-> <<>>,         \* currentUpload.uploadedChunks of the iteration
    chunkSize |-> 0,       \* chunkSize and filesize of the snapshot the
    filesize |-> 0,        \*   pending call will hand to updateProgress
    resp |-> NoResp,       \* the server's answer to a GET status, once made
    file |-> NoFile,       \* initiateUpload's file
    tempId |-> NoId,       \* initiateUpload's tempUploadId
    todo |-> {} ]          \* onFocus: ids of the snapshot still to visit

\* The chunk loop (uploadChunks) of a call has been entered and has not
\* returned.
LoopPcs == {"chunks_refresh", "chunks_idb", "chunks_chunk", "chunks_complete"}
InLoop(t) == t.pc \in LoopPcs

IdleSlots == {s \in Slots : tasks[s].op = "idle"}
FreeSlot == CHOOSE s \in IdleSlots : \A r \in IdleSlots : s <= r

NoRet == [op |-> "none", id |-> NoId, how |-> "none", val |-> NoId]

\* The state a synchronous run works on: the variables, the call that runs
\* (task) and a call it starts without awaiting it (spawn).
Now(t) ==
  [ uploads |-> uploads, ui |-> ui, onLine |-> onLine, blobs |-> blobs,
    putLog |-> putLog,
    server |-> server, ret |-> NoRet, clock |-> clock, task |-> t, spawn |-> Idle ]

\* The run ends at a suspension point or at its return: its state becomes
\* the next state.
Apply(s, st) ==
  \E r \in {st} :
    /\ uploads' = r.uploads
    /\ ui' = r.ui
    /\ blobs' = r.blobs
    /\ putLog' = r.putLog
    /\ server' = r.server
    /\ ret' = r.ret
    /\ clock' = r.clock
    /\ retry' = retry
    /\ onLine' = r.onLine
    /\ LET one == [tasks EXCEPT ![s] = r.task]
           free == {q \in Slots : one[q].op = "idle"}
       IN IF r.spawn.op = "idle" THEN tasks' = one
          ELSE /\ free # {}
               /\ tasks' = [one EXCEPT ![CHOOSE q \in free : \A p \in free : q <= p] = r.spawn]

\* The call returns (how = "returned") or throws (how = "threw").
Done(st, how, val) ==
  [st EXCEPT !.task = Idle,
             !.ret = [op |-> st.task.op, id |-> st.task.id, how |-> how, val |-> val]]

Await(st, pc) == [st EXCEPT !.task.pc = pc]

\* The engine's messages differ in their text only, and no branch reads the
\* text: a record keeps that it holds an engine message, not which one.
EngineMessage(msg) == "message"

\* updateUpload(uploadId, {lastError, lastErrorAt})
SetLastError(st, id, msg) ==
  [st EXCEPT !.uploads = updateUpload(st.uploads, id, [lastError |-> EngineMessage(msg)])]

SetStatus(st, id, status) ==
  [st EXCEPT !.uploads = setUploadStatus(st.uploads, id, status)]

\* setError(error.message)
SetUiError(st, msg) == [st EXCEPT !.ui.error = msg]

----------------------------------------------------------------------------
(* The server (outside the repository) *)

Known(srv, id) == id \in DOMAIN srv /\ srv[id].status # "deleted"

\* The list a faithful server reports: the indices it acknowledged.
RECURSIVE SetToSeq(_)
SetToSeq(S) ==
  IF S = {} THEN <<>>
  ELSE LET m == CHOOSE x \in S : \A y \in S : x <= y
       IN <<m>> \o SetToSeq(S \ {m})

\* POST /{id}/chunk accepted: the index is acknowledged; the form field
\* totalChunks tells the server how many chunks the upload has.
ServerChunk(srv, id, chunkIndex, totalChunks) ==
  [srv EXCEPT ![id].chunks = @ \cup {chunkIndex}, ![id].total = totalChunks]

\* POST /{id}/complete is accepted once every chunk is acknowledged.
CanComplete(srv, id) ==
  /\ Known(srv, id)
  /\ srv[id].total > 0
  /\ \A i \in 0..(srv[id].total - 1) : i \in srv[id].chunks

ServerSetStatus(srv, id, status) == [srv EXCEPT ![id].status = status]

ServerCreate(srv, id) ==
  [k \in DOMAIN srv \cup {id} |->
     IF k = id THEN [status |-> "uploading", chunks |-> {}, total |-> 0] ELSE srv[k]]

----------------------------------------------------------------------------
(* The engine: uploadActions of src/src/stores/uploadStore.js *)

\* resumeUpload's finally: setResuming(false)
ResumeFinally(st, how) == Done([st EXCEPT !.ui.isResuming = FALSE], how, NoId)

\* resumeUpload without its finally: the catch rethrows with the guard set.
ResumeCatchKeepsGuard(st) ==
  Done(SetStatus(SetLastError(st, st.task.id, "Resume error"), st.task.id, PAUSED),
       "threw", NoId)

\* resumeUpload's catch: record the error, PAUSED, rethrow
ResumeCatch(st) ==
  ResumeFinally(
    SetStatus(SetLastError(st, st.task.id, "Resume error"), st.task.id, PAUSED),
    "threw")

\* initAfterRehydrate from the head of its for loop to its next await
RECURSIVE BootLoop(_)

\* initAfterRehydrate's finally (lines 802-805), then the next record
BootFinally(st) == BootLoop([st EXCEPT !.ui.isResuming = FALSE])

\* initAfterRehydrate's catch around uploadChunks (lines 796-805)
BootCatch(st) ==
  BootFinally(SetStatus(SetLastError(st, st.task.id, "Auto-resume failed"),
                        st.task.id, PAUSED))

\* uploadChunks returns to the function that awaits it
ChunksReturn(st) ==
  IF st.task.op = "resumeUpload" THEN ResumeFinally(st, "returned")
  ELSE IF st.task.op = "initAfterRehydrate" THEN BootFinally(st)
  ELSE Done(st, "returned", NoId)

\* uploadChunks throws into the function that awaits it
ChunksThrow(st) ==
  IF st.task.op = "resumeUpload" THEN ResumeCatch(st)
  ELSE IF st.task.op = "initAfterRehydrate" THEN BootCatch(st)
  ELSE Done(st, "threw", NoId)

\* The for loop without the test of uploadedChunks.includes(chunkIndex).
LoopScanNoSkip(ups, online, id, totalChunks, chunkIndex) ==
  IF chunkIndex >= totalChunks THEN [kind |-> "complete", chunkIndex |-> chunkIndex]
  ELSE IF ~online THEN [kind |-> "offline", chunkIndex |-> chunkIndex]
  ELSE IF ~Has(ups, id) \/ ups[id].status # UPLOADING
       THEN [kind |-> "exit", chunkIndex |-> chunkIndex]
  ELSE IF ~ups[id].hasProgress
       THEN [kind |-> "typeError", chunkIndex |-> chunkIndex]
  ELSE [kind |-> "post", chunkIndex |-> chunkIndex]

\* The for loop of uploadChunks from chunkIndex up to its next await.
RECURSIVE LoopScan(_, _, _, _, _)
LoopScan(ups, online, id, totalChunks, chunkIndex) ==
  IF chunkIndex >= totalChunks THEN [kind |-> "complete", chunkIndex |-> chunkIndex]
  ELSE IF ~online THEN [kind |-> "offline", chunkIndex |-> chunkIndex]
  ELSE IF ~Has(ups, id) \/ ups[id].status # UPLOADING
       THEN [kind |-> "exit", chunkIndex |-> chunkIndex]
  ELSE IF ~ups[id].hasProgress
       \* currentUpload.uploadedChunks is undefined: .includes throws
       THEN [kind |-> "typeError", chunkIndex |-> chunkIndex]
  ELSE IF chunkIndex \in Range(ups[id].uploadedChunks)
       THEN LoopScan(ups, online, id, totalChunks, chunkIndex + 1)
  ELSE [kind |-> "post", chunkIndex |-> chunkIndex]

\* restoreFileFromIndexedDB up to its await: the read sees the BlobStore as
\* it is when the read is issued.
IdbRead(st, pc) ==
  [st EXCEPT !.task.pc = pc,
             !.task.resp = [kind |-> IF st.task.id \in st.blobs THEN "found" ELSE "absent",
                            status |-> "", chunks |-> <<>>]]

\* restoreFileFromIndexedDB that reports a missing blob to its caller only.
RestoreFileSilent(st, outcome) ==
  LET id == st.task.id
  IN IF outcome = "found"
     THEN [st EXCEPT !.uploads = updateUpload(st.uploads, id,
             [file |-> TRUE, lastError |-> Undefined, needsFile |-> FALSE])]
     ELSE st

\* restoreFileFromIndexedDB after its await
RestoreFile(st, outcome) ==
  LET id == st.task.id
  IN IF outcome = "found"
     THEN [st EXCEPT !.uploads = updateUpload(st.uploads, id,
             [file |-> TRUE, lastError |-> Undefined, needsFile |-> FALSE])]
     ELSE [st EXCEPT !.uploads = updateUpload(st.uploads, id,
             [lastError |-> EngineMessage(
                              IF outcome = "absent"
                              THEN "File not found in storage. Please restart the upload."
                              ELSE "Failed to restore file. Please restart the upload."),
              needsFile |-> TRUE])]

\* uploadChunks from the loop's chunkIndex on (lines 526-557)
RunLoop(st, from) ==
  LET id == st.task.id
      r == LoopScan(st.uploads, st.onLine, id, st.task.totalChunks, from)
      at == [st EXCEPT !.task.chunkIndex = r.chunkIndex]
  IN CASE r.kind = "complete" -> Await(at, "chunks_complete")
       [] r.kind = "offline" ->
            ChunksReturn(SetLastError(SetStatus(at, id, PAUSED), id,
                                      "Network offline. Upload paused."))
       [] r.kind = "exit" -> ChunksReturn(at)
       [] r.kind = "typeError" -> ChunksThrow(at)
       [] r.kind = "post" ->
            \* uploadChunk: ensureFileAvailable, then the POST
            LET cur == st.uploads[id]
                seen == [at EXCEPT !.task.snap = cur.uploadedChunks,
                                   !.task.chunkSize = cur.chunkSize,
                                   !.task.filesize = cur.filesize]
            IN IF cur.file THEN Await(seen, "chunks_chunk")
               ELSE IdbRead(seen, "chunks_idb")

\* refreshStatus up to its await (the caller has checked nothing)
RefreshIssue(st, pc) ==
  LET upload == st.uploads[st.task.id]
  IN [st EXCEPT !.task.pc = pc, !.task.resp = NoResp,
                !.task.chunkSize = upload.chunkSize,
                !.task.filesize = upload.filesize]

\* refreshStatus after a successful GET (lines 734-742)
RefreshApply(st) ==
  LET id == st.task.id
      t == st.task
      ups1 == updateProgress(st.uploads, id, t.resp.chunks, t.chunkSize, t.filesize)
      ups2 == IF t.resp.status = "completed" THEN setUploadStatus(ups1, id, COMPLETED)
              ELSE IF t.resp.status = "paused" THEN setUploadStatus(ups1, id, PAUSED)
              ELSE ups1
  IN [st EXCEPT !.uploads = ups2]

\* uploadChunks up to its first await (lines 509-517)
UploadChunksEnter(st) ==
  LET id == st.task.id
  IN IF ~Has(st.uploads, id) THEN ChunksReturn(st)
     ELSE IF st.uploads[id].status # UPLOADING THEN ChunksReturn(st)
     ELSE RefreshIssue(st, "chunks_refresh")

\* uploadChunks after refreshStatus (lines 518-526)
UploadChunksRefreshed(st) ==
  LET id == st.task.id
      st1 == IF st.task.resp.kind = "ok" THEN RefreshApply(st)
             ELSE SetLastError(st, id, "Status check failed")
      upload == st1.uploads[id]
  IN RunLoop([st1 EXCEPT !.task.totalChunks = upload.totalChunks], 0)

\* uploadChunks that goes on to the next chunk without updateProgress.
UploadChunksPostedUnrecorded(st, success) ==
  IF success THEN RunLoop(st, st.task.chunkIndex + 1)
  ELSE ChunksReturn(SetStatus(st, st.task.id, PAUSED))

\* uploadChunks that adds the chunk to the record's list as it is when the
\* POST returns, not to the list it read before the POST.
UploadChunksPostedOnRecord(st, success) ==
  LET id == st.task.id
      t == st.task
  IN IF success
     THEN RunLoop([st EXCEPT !.uploads =
                      updateProgress(st.uploads, id,
                                     Append(Entry(st.uploads, id).uploadedChunks, t.chunkIndex),
                                     t.chunkSize, t.filesize)],
                  t.chunkIndex + 1)
     ELSE ChunksReturn(SetStatus(st, id, PAUSED))

\* uploadChunks that goes on to the next chunk after a failed one.
UploadChunksPostedGoesOn(st, success) ==
  LET id == st.task.id
      t == st.task
  IN IF success
     THEN RunLoop([st EXCEPT !.uploads =
                      updateProgress(st.uploads, id, Append(t.snap, t.chunkIndex),
                                     t.chunkSize, t.filesize)],
                  t.chunkIndex + 1)
     ELSE RunLoop(st, t.chunkIndex + 1)

\* uploadChunks after uploadChunk returned (lines 546-553)
UploadChunksPosted(st, success) ==
  LET id == st.task.id
      t == st.task
  IN IF success
     THEN RunLoop([st EXCEPT !.uploads =
                      updateProgress(st.uploads, id, Append(t.snap, t.chunkIndex),
                                     t.chunkSize, t.filesize)],
                  t.chunkIndex + 1)
     ELSE ChunksReturn(SetStatus(st, id, PAUSED))

\* uploadChunks that treats a failed POST complete like a failed chunk.
UploadChunksCompletedPauses(st, ok) ==
  LET id == st.task.id
  IN IF ok THEN ChunksReturn(SetStatus(st, id, COMPLETED))
     ELSE ChunksReturn(
            SetLastError(SetStatus(SetUiError(st, "complete failed"), id, PAUSED),
                         id, "Failed to complete upload"))

\* uploadChunks after POST complete (lines 556-566)
UploadChunksCompleted(st, ok) ==
  LET id == st.task.id
  IN IF ok THEN ChunksReturn(SetStatus(st, id, COMPLETED))
     ELSE ChunksReturn(
            SetLastError(SetStatus(SetUiError(st, "complete failed"), id, FAILED),
                         id, "Failed to complete upload"))

\* A call that has just been made.
NewTask(op, id) == [Idle EXCEPT !.op = op, !.id = id, !.pc = "called"]

\* startUpload after ensureFileAvailable returned true (lines 505-506)
StartUploadGo(st) == UploadChunksEnter(SetStatus(st, st.task.id, UPLOADING))

\* startUpload without the test for offline.
StartUploadCallUnchecked(st) ==
  LET id == st.task.id
  IN IF ~Has(st.uploads, id) THEN Done(st, "returned", NoId)
     ELSE IF ~st.uploads[id].file THEN IdbRead(st, "start_idb")
     ELSE StartUploadGo(st)

\* startUpload up to its first await (lines 486-506)
StartUploadCall(st) ==
  LET id == st.task.id
  IN IF ~Has(st.uploads, id) THEN Done(st, "returned", NoId)
     ELSE IF st.ui.isOffline \/ ~st.onLine
     THEN Done(SetStatus(SetLastError(st, id, "You are offline. Upload paused."),
                         id, PAUSED),
               "returned", NoId)
     ELSE IF ~st.uploads[id].file THEN IdbRead(st, "start_idb")
     ELSE StartUploadGo(st)

\* startUpload after the read of ensureFileAvailable (lines 413-419, 501-506)
StartUploadRestored(st, outcome) ==
  LET st1 == RestoreFile(st, outcome)
  IN IF outcome = "found" THEN StartUploadGo(st1)
     ELSE Done(SetStatus(st1, st.task.id, PAUSED), "returned", NoId)

\* uploadChunk after the read of ensureFileAvailable (lines 574-589): the
\* file is read from the record as it was before the read, which has none.
UploadChunkRestored(st, outcome) ==
  LET id == st.task.id
      st1 == RestoreFile(st, outcome)
  IN IF outcome # "found"
     THEN UploadChunksPosted(SetStatus(st1, id, PAUSED), FALSE)
     ELSE IF ~st.onLine
     THEN UploadChunksPosted(
            SetLastError(SetStatus(st1, id, PAUSED), id, "Offline during chunk upload."),
            FALSE)
     ELSE ChunksThrow(st1)

\* resumeUpload once the file is there (lines 663-674)
ResumeUploadFile(st) ==
  LET id == st.task.id
  IN IF ~Has(st.uploads, id) \/ ~st.uploads[id].file
     THEN ResumeFinally(SetLastError(st, id, "File not available. Please try again."),
                        "returned")
     ELSE RefreshIssue(st, "resume_refresh")

\* resumeUpload up to its first await (lines 630-674)
ResumeUploadCall(st) ==
  LET id == st.task.id
      held == [st EXCEPT !.ui.isResuming = TRUE]
  IN IF ~Has(st.uploads, id) THEN Done(st, "returned", NoId)
     ELSE IF st.ui.isResuming THEN Done(st, "returned", NoId)
     ELSE IF ~st.onLine
     THEN ResumeFinally(SetLastError(held, id, "You are offline. Cannot resume."),
                        "returned")
     ELSE IF ~st.uploads[id].file THEN IdbRead(held, "resume_idb")
     ELSE ResumeUploadFile(held)

\* resumeUpload after the read of restoreFileFromIndexedDB (lines 652-674)
ResumeUploadRestored(st, outcome) ==
  LET st1 == RestoreFile(st, outcome)
  IN IF outcome = "found" THEN ResumeUploadFile(st1)
     ELSE ResumeFinally(
            SetLastError(st1, st.task.id,
                         "File not found in storage. Please restart the upload."),
            "returned")

\* resumeUpload after refreshStatus (lines 673-681): a failure is ignored
ResumeUploadRefreshed(st) ==
  Await(IF st.task.resp.kind = "ok" THEN RefreshApply(st) ELSE st, "resume_post")

\* resumeUpload after POST resume (lines 681-694)
ResumeUploadPosted(st, ok) ==
  IF ok THEN UploadChunksEnter(SetStatus(st, st.task.id, UPLOADING))
  ELSE ResumeCatch(st)

\* pauseUpload: it awaits POST pause at once (lines 614-619)
PauseUploadCall(st) == Await(st, "pause_post")

\* pauseUpload whose catch records the error and rethrows, without PAUSED.
PauseUploadRethrows(st, ok) ==
  LET id == st.task.id
  IN IF ok THEN Done(SetStatus(st, id, PAUSED), "returned", NoId)
     ELSE Done(SetLastError(st, id, "Pause error"), "threw", NoId)

\* pauseUpload after POST pause (lines 620-627)
PauseUploadPosted(st, ok) ==
  LET id == st.task.id
  IN IF ok THEN Done(SetStatus(st, id, PAUSED), "returned", NoId)
     ELSE Done(SetLastError(SetStatus(st, id, PAUSED), id, "Pause error"),
               "returned", NoId)

\* removeUpload of the store with its BlobStore delete (part_002 lines 78-91)
RemoveLocal(st, id) ==
  [st EXCEPT !.blobs = @ \ {id}, !.uploads = removeUpload(st.uploads, id)]

\* cancelUpload: it awaits DELETE at once (lines 697-702)
CancelUploadCall(st) == Await(st, "cancel_delete")

\* cancelUpload whose catch only records the error and rethrows: the
\* record stays when the DELETE fails.
CancelUploadKeepsOnError(st, ok) ==
  LET id == st.task.id
  IN IF ok THEN Done(RemoveLocal(st, id), "returned", NoId)
     ELSE Done(SetUiError(st, "delete failed"), "threw", NoId)

\* cancelUpload that marks the record CANCELED and keeps it instead of
\* removing it.
CancelUploadMarks(st, ok) ==
  LET id == st.task.id
  IN IF ok THEN Done(SetStatus(st, id, CANCELED), "returned", NoId)
     ELSE Done(SetStatus(SetUiError(st, "delete failed"), id, CANCELED), "threw", NoId)

\* cancelUpload after DELETE (lines 703-708)
CancelUploadDeleted(st, ok) ==
  LET id == st.task.id
  IN IF ok THEN Done(RemoveLocal(st, id), "returned", NoId)
     ELSE Done(RemoveLocal(SetUiError(st, "delete failed"), id), "threw", NoId)

\* removeUpload without the status test: DELETE for every id that is not
\* temp_, also for a COMPLETED record.
RemoveUploadAlwaysDeletes(st) ==
  LET id == st.task.id
  IN IF ~Has(st.uploads, id) THEN Done(st, "returned", NoId)
     ELSE IF ~startsWithTemp(id) THEN Await(st, "remove_delete")
     ELSE Done(RemoveLocal(st, id), "returned", NoId)

\* removeUpload up to its await (lines 711-721)
RemoveUploadCall(st) ==
  LET id == st.task.id
  IN IF ~Has(st.uploads, id) THEN Done(st, "returned", NoId)
     ELSE IF ~startsWithTemp(id) /\ st.uploads[id].status # COMPLETED
     THEN Await(st, "remove_delete")
     ELSE Done(RemoveLocal(st, id), "returned", NoId)

\* removeUpload after DELETE (lines 721-724): removed either way
RemoveUploadDeleted(st, ok) == Done(RemoveLocal(st, st.task.id), "returned", NoId)

\* What the initiate response carries: an uploadId or none, and optionally
\* chunkSize and totalChunks (0: the field is absent).
InitiateResponses ==
  { r \in [uploadId : BOOLEAN, chunkSize : {0, 2 * DefaultChunkSize}, totalChunks : {0, 1}] :
      r.totalChunks # 0 => r.chunkSize # 0 }

\* clearStaleUploads that drops every stale, FAILED or CANCELED record,
\* whatever its file.
clearStaleUploadsOfAnyFile(ups, file) ==
  LET drop == {k \in DOMAIN ups : ups[k].stale \/ ups[k].status \in {FAILED, CANCELED}}
  IN [k \in DOMAIN ups \ drop |-> ups[k]]

\* clearStaleUploads (part_002 lines 181-201)
clearStaleUploads(ups, file) ==
  LET isSameFile(u) == u.filename = file.name /\ u.filesize = file.size
      isStale(u) == u.stale
      isFailedOrCanceled(u) == u.status \in {FAILED, CANCELED}
  IN [k \in {k \in DOMAIN ups :
               ~(isSameFile(ups[k]) /\ (isStale(ups[k]) \/ isFailedOrCanceled(ups[k])))}
        |-> ups[k]]

\* tempUpload of initiateUpload (lines 435-449)
TempUpload(file) ==
  [ filename |-> file.name, filesize |-> file.size, status |-> INITIATING,
    hasProgress |-> TRUE, uploadedChunks |-> <<>>, uploadedBytes |-> 0,
    progress |-> 0, chunkSize |-> DefaultChunkSize,
    totalChunks |-> Ceil(file.size, DefaultChunkSize), file |-> TRUE,
    needsFile |-> FALSE ]

\* addUpload without the temp_ test: the blob is put under any id.
AddLocalAnyId(st, id, upload) ==
  [st EXCEPT !.blobs = IF upload.file THEN @ \cup {id} ELSE @,
             !.putLog = IF upload.file THEN @ \cup {id} ELSE @,
             !.uploads = addUpload(st.uploads, id, upload)]

\* addUpload of the store with its BlobStore put (part_002 lines 52-76)
AddLocal(st, id, upload) ==
  LET put == upload.file /\ ~startsWithTemp(id)
  IN [st EXCEPT !.blobs = IF put THEN @ \cup {id} ELSE @,
                !.putLog = IF put THEN @ \cup {id} ELSE @,
                !.uploads = addUpload(st.uploads, id, upload)]

\* initiateUpload's catch (lines 480-483)
InitiateUploadCatch(st, msg) == Done(SetUiError(st, msg), "threw", NoId)

\* initiateUpload from clearStaleUploads to its await (lines 432-460)
InitiateUploadAdd(st, file) ==
  LET n == st.clock + 1
      st1 == [st EXCEPT !.clock = n,
                        !.uploads = clearStaleUploads(st.uploads, file),
                        !.task.file = file, !.task.tempId = TempId(n),
                        !.task.id = TempId(n)]
  IN Await(AddLocal(st1, TempId(n), TempUpload(file)), "initiate_post")

\* initiateUpload without the validation of lines 428-430.
InitiateUploadUnchecked(st, file) == InitiateUploadAdd(st, file)

\* initiateUpload up to its await (lines 423-460)
InitiateUploadCall(st, file) ==
  IF ~ValidFile(file) THEN InitiateUploadCatch(st, "Invalid file selected")
  ELSE InitiateUploadAdd(st, file)

\* initiateUpload after POST initiate answered (lines 462-479)
InitiateUploadPosted(st, r, serverUploadId) ==
  LET t == st.task
      tempUpload == TempUpload(t.file)
      finalUpload ==
        Merge(tempUpload,
          [ status |-> PENDING,
            chunkSize |-> IF r.chunkSize # 0 THEN r.chunkSize ELSE tempUpload.chunkSize,
            totalChunks |-> IF r.totalChunks # 0 THEN r.totalChunks
                            ELSE tempUpload.totalChunks ])
  IN IF ~r.uploadId THEN InitiateUploadCatch(st, "Server did not return uploadId")
     ELSE Done(AddLocal(RemoveLocal(st, t.tempId), serverUploadId, finalUpload),
               "returned", serverUploadId)

\* A call that is not awaited runs up to its first await inside the run of
\* its caller, and goes on as a pending call of its own.
SpawnResume(st, id) ==
  LET r == ResumeUploadCall([st EXCEPT !.task = NewTask("resumeUpload", id)])
  IN [r EXCEPT !.task = st.task, !.spawn = r.task]

\* Object.values(uploads) filtered to the entries that carry an uploadId
IdNum(id) == 2 * id[2] + (IF startsWithTemp(id) THEN 0 ELSE 1)
FirstId(S) == CHOOSE id \in S : \A o \in S : IdNum(id) <= IdNum(o)

\* onFocus from the head of its for loop to its next await (index.js 74-89)
RECURSIVE FocusLoop(_)
FocusLoop(st) ==
  IF st.task.todo = {} THEN Done(st, "returned", NoId)
  ELSE LET id == FirstId(st.task.todo)
           at == [st EXCEPT !.task.todo = @ \ {id}, !.task.id = id]
       IN IF Has(st.uploads, id) THEN RefreshIssue(at, "focus_refresh")
          \* refreshStatus returns at once and refreshed is null
          ELSE FocusLoop(at)

\* onFocus up to its first await (index.js 70-77)
OnFocusCall(st) ==
  FocusLoop([st EXCEPT !.task.todo =
    {id \in DOMAIN st.uploads : /\ HasCore(st.uploads[id])
                                /\ st.uploads[id].status \in {PENDING, PAUSED, UPLOADING}}])

\* onFocus after refreshStatus (index.js 78-88)
OnFocusRefreshed(st, ok) ==
  LET id == st.task.id
      st1 == IF ok THEN RefreshApply(st) ELSE st
  IN IF ok /\ st1.onLine /\ Has(st1.uploads, id) /\ st1.uploads[id].status # COMPLETED
     THEN FocusLoop(SpawnResume(st1, id))
     ELSE FocusLoop(st1)

\* handleOffline (index.js 36-41)
HandleOffline(st) ==
  [st EXCEPT !.ui.isOffline = TRUE,
             !.uploads = markAllUploadingAsPaused(st.uploads, "offline")]

\* handleOnline's for loop (index.js 47-55) over the records of its
\* snapshot that were PAUSED: resumeUpload is called for each and not
\* awaited.  A call that suspends holds the isResuming guard, so at most one
\* of the calls goes on as a pending call.
RECURSIVE OnlineLoop(_, _)
OnlineLoop(st, todo) ==
  IF todo = {} THEN st
  ELSE LET id == FirstId(todo)
           r == ResumeUploadCall([st EXCEPT !.task = NewTask("resumeUpload", id)])
       IN OnlineLoop([r EXCEPT !.task = st.task,
                               !.spawn = IF r.task.op = "idle" THEN st.spawn ELSE r.task],
                     todo \ {id})

\* handleOnline (index.js 43-56)
HandleOnline(st) ==
  OnlineLoop([st EXCEPT !.ui.isOffline = FALSE],
             {id \in DOMAIN st.uploads :
                HasCore(st.uploads[id]) /\ st.uploads[id].status = PAUSED})

\* initAfterRehydrate: the auto-resume step (lines 783-795)
BootAutoResume(st) ==
  LET id == st.task.id
  IN IF st.onLine
     THEN UploadChunksEnter(SetStatus([st EXCEPT !.ui.isResuming = TRUE], id, UPLOADING))
     ELSE BootLoop(st)

\* initAfterRehydrate that leaves a record without blob PAUSED.
BootFailedPauses(st, msg) ==
  BootLoop(SetStatus(SetLastError(st, st.task.id, msg), st.task.id, PAUSED))

\* initAfterRehydrate marks the record FAILED and goes on (lines 763-779)
BootFailed(st, msg) ==
  BootLoop(SetStatus(SetLastError(st, st.task.id, msg), st.task.id, FAILED))

\* initAfterRehydrate after reconcileFromServer (lines 754-795); refreshed
\* is the record as it is now
BootAfterReconcile(st) ==
  LET id == st.task.id
      active == {PENDING, PAUSED, UPLOADING}
  IN IF ~Has(st.uploads, id) THEN BootLoop(st)
     ELSE IF st.uploads[id].status \in active /\ ~st.uploads[id].file
     THEN IdbRead(st, "boot_idb")
     ELSE IF st.uploads[id].status \in active THEN BootAutoResume(st)
     ELSE BootLoop(st)

\* reconcileFromServer after its await (lines 343-360)
reconcileFromServer(st, ok) ==
  IF ok THEN RefreshApply(st)
  ELSE SetLastError(st, st.task.id, "Failed to reconcile status")

\* initAfterRehydrate that a failed reconciliation ends.
BootReconciledStops(st, ok) ==
  IF ok THEN BootAfterReconcile(reconcileFromServer(st, ok))
  ELSE Done(reconcileFromServer(st, ok), "threw", NoId)

\* initAfterRehydrate after reconcileFromServer returned (lines 752-756)
BootReconciled(st, ok) == BootAfterReconcile(reconcileFromServer(st, ok))

\* initAfterRehydrate after restoreFileFromIndexedDB (lines 762-780): the
\* status it tests afterwards is the one of refreshed, which was active
BootRestored(st, outcome) ==
  LET id == st.task.id
      st1 == RestoreFile(st, outcome)
  IN IF outcome # "found"
     THEN BootFailed(st1, "File not found in storage. Please restart the upload.")
     ELSE IF ~st1.uploads[id].file
     THEN BootFailed(st1, "Failed to restore file. Please restart the upload.")
     ELSE BootAutoResume(st1)

BootLoop(st) ==
  IF st.task.todo = {} THEN Done(st, "returned", NoId)
  ELSE LET id == FirstId(st.task.todo)
           at == [st EXCEPT !.task.todo = @ \ {id}, !.task.id = id]
       IN IF Has(st.uploads, id) THEN RefreshIssue(at, "boot_reconcile")
          \* reconcileFromServer returns at once and refreshed is null
          ELSE BootLoop(at)

\* initAfterRehydrate up to its first await (lines 745-752)
InitAfterRehydrateCall(st) ==
  BootLoop([st EXCEPT !.task.todo = {id \in DOMAIN st.uploads : HasCore(st.uploads[id])}])

----------------------------------------------------------------------------
(* Actions: one synchronous run each *)

\* The ids the caller can name: the entries that carry an uploadId.
Callable == {id \in DOMAIN uploads : HasCore(uploads[id])}

Called(op, id) == Now(NewTask(op, id))

CallInitiateUpload ==
  /\ IdleSlots # {}
  /\ clock < MaxAdds
  /\ \E file \in Files :
       Apply(FreeSlot, InitiateUploadCall(Called("initiateUpload", NoId), file))

\* POST /initiate answers with one of the responses R, or fails for good
InitiateResponseOf(R) ==
  \E s \in Slots :
    /\ tasks[s].pc = "initiate_post"
    /\ LET st == Now(tasks[s])
           sid == ServerId(tasks[s].tempId[2])
       IN \/ Apply(s, InitiateUploadCatch(st, "initiate failed"))
          \/ \E r \in R :
               Apply(s, InitiateUploadPosted(
                          IF r.uploadId
                          THEN [st EXCEPT !.server = ServerCreate(st.server, sid)]
                          ELSE st,
                          r, sid))

\* The responses that leave chunkSize and totalChunks to the client.
PlainResponses == {r \in InitiateResponses : r.chunkSize = 0}

InitiateResponse == InitiateResponseOf(PlainResponses)

CallStartUpload ==
  /\ IdleSlots # {}
  /\ \E id \in Callable : Apply(FreeSlot, StartUploadCall(Called("startUpload", id)))

CallPauseUpload ==
  /\ IdleSlots # {}
  /\ \E id \in Callable : Apply(FreeSlot, PauseUploadCall(Called("pauseUpload", id)))

CallResumeUpload ==
  /\ IdleSlots # {}
  /\ \E id \in Callable : Apply(FreeSlot, ResumeUploadCall(Called("resumeUpload", id)))

CallCancelUpload ==
  /\ IdleSlots # {}
  /\ \E id \in Callable : Apply(FreeSlot, CancelUploadCall(Called("cancelUpload", id)))

CallRemoveUpload ==
  /\ IdleSlots # {}
  /\ \E id \in Callable : Apply(FreeSlot, RemoveUploadCall(Called("removeUpload", id)))

\* bootstrap awaits initAfterRehydrate before it attaches the focus listener
Booting == \E s \in Slots : tasks[s].op = "initAfterRehydrate"

\* window 'focus'
Focus ==
  /\ ~Booting
  /\ IdleSlots # {}
  /\ Apply(FreeSlot, OnFocusCall(Called("onFocus", NoId)))

\* window 'offline'; the handler is not a pending call (it awaits nothing)
Offline ==
  /\ onLine
  /\ Apply(1, HandleOffline([Now(tasks[1]) EXCEPT !.onLine = FALSE]))

\* window 'online'
Online ==
  /\ ~onLine
  /\ Apply(1, HandleOnline([Now(tasks[1]) EXCEPT !.onLine = TRUE]))

RefreshPcs == {"chunks_refresh", "resume_refresh", "focus_refresh", "boot_reconcile"}

\* The server answers GET /{id}/status
ServerStatus ==
  \E s \in Slots :
    /\ tasks[s].pc \in RefreshPcs
    /\ tasks[s].resp.kind = "none"
    /\ Known(server, tasks[s].id)
    /\ tasks' = [tasks EXCEPT ![s].resp =
                   [kind |-> "ok", status |-> server[tasks[s].id].status,
                    chunks |-> SetToSeq(server[tasks[s].id].chunks)]]
    /\ ret' = NoRet
    /\ UNCHANGED <<uploads, ui, onLine, blobs, putLog, server, clock, retry>>

\* refreshStatus after its await
Refreshed(st, ok) ==
  LET got == [st EXCEPT !.task.resp.kind = IF ok THEN "ok" ELSE "err"]
  IN CASE st.task.pc = "chunks_refresh" -> UploadChunksRefreshed(got)
       [] st.task.pc = "resume_refresh" -> ResumeUploadRefreshed(got)
       [] st.task.pc = "focus_refresh" -> OnFocusRefreshed(got, ok)
       [] st.task.pc = "boot_reconcile" -> BootReconciled(got, ok)

\* The answer to GET status arrives
StatusResponse ==
  \E s \in Slots :
    /\ tasks[s].pc \in RefreshPcs
    /\ tasks[s].resp.kind = "ok"
    /\ Apply(s, Refreshed(Now(tasks[s]), TRUE))

\* GET status fails for good
StatusError ==
  \E s \in Slots :
    /\ tasks[s].pc \in RefreshPcs
    /\ Apply(s, Refreshed(Now(tasks[s]), FALSE))

IdbPcs == {"start_idb", "resume_idb", "chunks_idb", "boot_idb"}

\* indexedDBService.getFile settles
IdbResponse ==
  \E s \in Slots :
    /\ tasks[s].pc \in IdbPcs
    /\ \E outcome \in {tasks[s].resp.kind, "error"} :
         LET st == Now(tasks[s])
         IN CASE tasks[s].pc = "start_idb" -> Apply(s, StartUploadRestored(st, outcome))
              [] tasks[s].pc = "resume_idb" -> Apply(s, ResumeUploadRestored(st, outcome))
              [] tasks[s].pc = "chunks_idb" -> Apply(s, UploadChunkRestored(st, outcome))
              [] tasks[s].pc = "boot_idb" -> Apply(s, BootRestored(st, outcome))

\* POST /{id}/chunk answers, or fails for good (uploadChunk lines 597-611)
ChunkResponse ==
  \E s \in Slots :
    /\ tasks[s].pc = "chunks_chunk"
    /\ LET st == Now(tasks[s])
           t == tasks[s]
       IN \/ /\ Known(server, t.id)
             /\ Apply(s, UploadChunksPosted(
                  [st EXCEPT !.server = ServerChunk(st.server, t.id, t.chunkIndex,
                                                    t.totalChunks)],
                  TRUE))
          \/ Apply(s, UploadChunksPosted(SetLastError(st, t.id, "Chunk failed"), FALSE))

\* POST /{id}/complete answers, or fails for good
CompleteResponse ==
  \E s \in Slots :
    /\ tasks[s].pc = "chunks_complete"
    /\ LET st == Now(tasks[s])
           id == tasks[s].id
       IN \/ /\ CanComplete(server, id)
             /\ Apply(s, UploadChunksCompleted(
                  [st EXCEPT !.server = ServerSetStatus(st.server, id, "completed")],
                  TRUE))
          \/ Apply(s, UploadChunksCompleted(st, FALSE))

\* pause and resume do not reopen an upload the server has completed
ServerMove(srv, id, status) ==
  IF srv[id].status = "completed" THEN srv ELSE ServerSetStatus(srv, id, status)

\* POST /{id}/pause answers, or fails for good
PauseResponse ==
  \E s \in Slots :
    /\ tasks[s].pc = "pause_post"
    /\ LET st == Now(tasks[s])
           id == tasks[s].id
       IN \/ /\ Known(server, id)
             /\ Apply(s, PauseUploadPosted(
                  [st EXCEPT !.server = ServerMove(st.server, id, "paused")], TRUE))
          \/ Apply(s, PauseUploadPosted(st, FALSE))

\* POST /{id}/resume answers, or fails for good
ResumeResponse ==
  \E s \in Slots :
    /\ tasks[s].pc = "resume_post"
    /\ LET st == Now(tasks[s])
           id == tasks[s].id
       IN \/ /\ Known(server, id)
             /\ Apply(s, ResumeUploadPosted(
                  [st EXCEPT !.server = ServerMove(st.server, id, "uploading")], TRUE))
          \/ Apply(s, ResumeUploadPosted(st, FALSE))

\* DELETE /{id} answers, or fails for good
DeleteResponse ==
  \E s \in Slots :
    /\ tasks[s].pc \in {"cancel_delete", "remove_delete"}
    /\ LET st == Now(tasks[s])
           id == tasks[s].id
           after(x, ok) == IF tasks[s].pc = "cancel_delete" THEN CancelUploadDeleted(x, ok)
                           ELSE RemoveUploadDeleted(x, ok)
       IN \/ /\ Known(server, id)
             /\ Apply(s, after([st EXCEPT !.server = ServerSetStatus(st.server, id, "deleted")],
                               TRUE))
          \/ Apply(s, after(st, FALSE))

----------------------------------------------------------------------------
(* Specification *)

\* part_002 lines 7-18: no uploads, the ui flags down; nothing is pending.
Init ==
  /\ uploads = <<>>
  /\ ui = [isOffline |-> FALSE, isResuming |-> FALSE, error |-> "null"]
  /\ onLine = TRUE
  /\ blobs = {}
  /\ putLog = {}
  /\ server = <<>>
  /\ tasks = [s \in Slots |-> Idle]
  /\ ret = NoRet
  /\ clock = 0
  /\ retry = NoRetry

Next ==
  \/ CallInitiateUpload
  \/ InitiateResponse
  \/ CallStartUpload
  \/ CallPauseUpload
  \/ CallResumeUpload
  \/ CallCancelUpload
  \/ CallRemoveUpload
  \/ Focus
  \/ Offline
  \/ Online
  \/ ServerStatus
  \/ StatusResponse
  \/ StatusError
  \/ IdbResponse
  \/ ChunkResponse
  \/ CompleteResponse
  \/ PauseResponse
  \/ ResumeResponse
  \/ DeleteResponse

Spec == Init /\ [][Next]_vars

----------------------------------------------------------------------------
(* The page is loaded again: the store is rehydrated from localStorage *)

\* partialize (part_002 lines 205-213): a record is persisted without its
\* file.  The server has acknowledged what the record lists.
Persisted(status, chunks) ==
  LET file == CHOOSE f \in Files : TRUE
      base == addUpload(<<>>, NoId, Merge(TempUpload(file), [status |-> status, file |-> FALSE]))
  IN updateProgress(base, NoId, chunks, DefaultChunkSize, file.size)[NoId]

\* What a session can leave behind for one record.
PersistedRecords ==
  { Persisted(PENDING, <<>>), Persisted(PAUSED, <<0>>), Persisted(UPLOADING, <<0>>),
    Persisted(COMPLETED, <<0, 1>>) }

StoresOf(max, records) ==
  UNION { [ {ServerId(i) : i \in 1..n} -> records ] : n \in 1..max }

PersistedStores == StoresOf(MaxPersisted, PersistedRecords)

ServerOf(ups) ==
  [ id \in DOMAIN ups |->
      [ status |-> IF ups[id].status = COMPLETED THEN "completed" ELSE "uploading",
        chunks |-> Range(ups[id].uploadedChunks),
        total |-> IF ups[id].uploadedChunks = <<>> THEN 0 ELSE ups[id].totalChunks ] ]

\* index.js 94-98: the connectivity listeners are attached (handleOffline
\* has run if the page loads offline) and initAfterRehydrate is about to be
\* called.  The BlobStore holds the blob of every record that is not
\* COMPLETED, or it has lost them.
InitBoot ==
  \E ups \in PersistedStores, online \in BOOLEAN, kept \in BOOLEAN :
    /\ uploads = IF online THEN ups ELSE markAllUploadingAsPaused(ups, "offline")
    /\ ui = [isOffline |-> ~online, isResuming |-> FALSE, error |-> "null"]
    /\ onLine = online
    /\ blobs = IF kept THEN {id \in DOMAIN ups : ups[id].status # COMPLETED} ELSE {}
    /\ putLog = {}
    /\ server = ServerOf(ups)
    /\ tasks = [s \in Slots |-> IF s = 1 THEN NewTask("initAfterRehydrate", NoId) ELSE Idle]
    /\ ret = NoRet
    /\ clock = MaxAdds
    /\ retry = NoRetry

\* bootstrap calls initAfterRehydrate (index.js 102)
BootStart ==
  \E s \in Slots :
    /\ tasks[s].op = "initAfterRehydrate" /\ tasks[s].pc = "called"
    /\ Apply(s, InitAfterRehydrateCall(Now(tasks[s])))

\* The session that follows: every call and event of Next except the
\* selection of a new file.
NextBoot ==
  \/ BootStart
  \/ CallStartUpload
  \/ CallPauseUpload
  \/ CallResumeUpload
  \/ CallCancelUpload
  \/ CallRemoveUpload
  \/ Focus
  \/ Offline
  \/ Online
  \/ ServerStatus
  \/ StatusResponse
  \/ StatusError
  \/ IdbResponse
  \/ ChunkResponse
  \/ CompleteResponse
  \/ PauseResponse
  \/ ResumeResponse
  \/ DeleteResponse

SpecBoot == InitBoot /\ [][NextBoot]_vars

----------------------------------------------------------------------------
(* One pass of initAfterRehydrate over several records, nothing else going on *)

RehydratedStores == StoresOf(MaxRehydrated, PersistedRecords)

\* As InitBoot, for the stores of RehydratedStores.
InitPass ==
  \E ups \in RehydratedStores, online \in BOOLEAN, kept \in BOOLEAN :
    /\ uploads = IF online THEN ups ELSE markAllUploadingAsPaused(ups, "offline")
    /\ ui = [isOffline |-> ~online, isResuming |-> FALSE, error |-> "null"]
    /\ onLine = online
    /\ blobs = IF kept THEN {id \in DOMAIN ups : ups[id].status # COMPLETED} ELSE {}
    /\ putLog = {}
    /\ server = ServerOf(ups)
    /\ tasks = [s \in Slots |-> IF s = 1 THEN NewTask("initAfterRehydrate", NoId) ELSE Idle]
    /\ ret = NoRet
    /\ clock = MaxAdds
    /\ retry = NoRetry

\* The awaits of the pass settle: a request is answered or fails for good
\* (withRetry gives up after its retries), a BlobStore read ends.
NextPass ==
  \/ BootStart
  \/ ServerStatus
  \/ StatusResponse
  \/ StatusError
  \/ IdbResponse
  \/ ChunkResponse
  \/ CompleteResponse

SpecPass == InitPass /\ [][NextPass]_vars /\ WF_vars(NextPass)

----------------------------------------------------------------------------
(* The client comes back online with uploads that the offline event paused *)

\* The records were UPLOADING in this session (they hold their file and the
\* BlobStore holds their blob) when handleOffline ran; their chunk loops
\* have ended since.
PausedStores ==
  { markAllUploadingAsPaused([id \in DOMAIN ups |-> Merge(ups[id], [file |-> TRUE])], "offline") :
      ups \in StoresOf(MaxPaused, {Persisted(UPLOADING, <<>>), Persisted(UPLOADING, <<0>>)}) }

InitOnline ==
  \E ups \in PausedStores :
    /\ uploads = ups
    /\ ui = [isOffline |-> TRUE, isResuming |-> FALSE, error |-> "null"]
    /\ onLine = FALSE
    /\ blobs = DOMAIN ups
    /\ putLog = {}
    /\ server = ServerOf(ups)
    /\ tasks = [s \in Slots |-> Idle]
    /\ ret = NoRet
    /\ clock = MaxAdds
    /\ retry = NoRetry

\* POST /{id}/resume is accepted
ResumeAccepted ==
  \E s \in Slots :
    /\ tasks[s].pc = "resume_post"
    /\ Known(server, tasks[s].id)
    /\ Apply(s, ResumeUploadPosted(
         [Now(tasks[s]) EXCEPT !.server = ServerMove(server, tasks[s].id, "uploading")], TRUE))

\* POST /{id}/chunk is accepted
ChunkAccepted ==
  \E s \in Slots :
    /\ tasks[s].pc = "chunks_chunk"
    /\ Known(server, tasks[s].id)
    /\ Apply(s, UploadChunksPosted(
         [Now(tasks[s]) EXCEPT !.server = ServerChunk(server, tasks[s].id, tasks[s].chunkIndex,
                                                      tasks[s].totalChunks)],
         TRUE))

\* POST /{id}/complete is accepted
CompleteAccepted ==
  \E s \in Slots :
    /\ tasks[s].pc = "chunks_complete"
    /\ CanComplete(server, tasks[s].id)
    /\ Apply(s, UploadChunksCompleted(
         [Now(tasks[s]) EXCEPT !.server = ServerSetStatus(server, tasks[s].id, "completed")],
         TRUE))

\* The requests of the pending calls are answered, and accepted.
Accepted ==
  \/ ServerStatus
  \/ StatusResponse
  \/ ResumeAccepted
  \/ ChunkAccepted
  \/ CompleteAccepted

\* The online event, then a server that accepts every request; no other
\* event and no call of the user.
NextOnline ==
  \/ Online
  \/ Accepted

\* Every request is answered in the end.
SpecOnline == InitOnline /\ [][NextOnline]_vars /\ WF_vars(Accepted)

----------------------------------------------------------------------------
(* The user starts uploads that nothing interferes with *)

\* The records initiateUpload has stored: PENDING, the file in memory.
PendingStores ==
  { [id \in DOMAIN ups |-> Merge(ups[id], [file |-> TRUE])] :
      ups \in StoresOf(MaxStarted, {Persisted(PENDING, <<>>)}) }

InitStart ==
  \E ups \in PendingStores :
    /\ uploads = ups
    /\ ui = [isOffline |-> FALSE, isResuming |-> FALSE, error |-> "null"]
    /\ onLine = TRUE
    /\ blobs = DOMAIN ups
    /\ putLog = DOMAIN ups
    /\ server = ServerOf(ups)
    /\ tasks = [s \in Slots |-> Idle]
    /\ ret = NoRet
    /\ clock = MaxAdds
    /\ retry = NoRetry

\* startUpload(id) on a PENDING record
StartPending ==
  /\ IdleSlots # {}
  /\ \E id \in Callable :
       /\ uploads[id].status = PENDING
       /\ Apply(FreeSlot, StartUploadCall(Called("startUpload", id)))

\* startUpload on PENDING records and a server that accepts every request;
\* no event and no other call.
NextStart ==
  \/ StartPending
  \/ ServerStatus
  \/ StatusResponse
  \/ ChunkAccepted
  \/ CompleteAccepted

\* Every request is answered in the end.
SpecStart ==
  /\ InitStart /\ [][NextStart]_vars
  /\ WF_vars(ServerStatus \/ StatusResponse \/ ChunkAccepted \/ CompleteAccepted)

----------------------------------------------------------------------------
(* Any file is handed to initiateUpload, and the initiate response may carry
   chunkSize and totalChunks *)

\* initiateUpload(file) with anything a caller can hand over
CallInitiateUploadAny ==
  /\ IdleSlots # {}
  /\ clock < MaxAdds
  /\ \E file \in AnyFiles :
       Apply(FreeSlot, InitiateUploadCall(Called("initiateUpload", NoId), file))

\* POST /initiate answers with any of the responses, or fails for good
InitiateAnswered == InitiateResponseOf(InitiateResponses)

\* The file is selected, then uploaded with startUpload.
NextInitiate ==
  \/ CallInitiateUploadAny
  \/ InitiateAnswered
  \/ CallStartUpload
  \/ ServerStatus
  \/ StatusResponse
  \/ StatusError
  \/ ChunkResponse
  \/ CompleteResponse

SpecInitiate == Init /\ [][NextInitiate]_vars

----------------------------------------------------------------------------
(* clearStaleUploads on stores of records of any file, age and status *)

\* The files initiateUpload hands to clearStaleUploads.
StaleFiles == [name : {"a", "b"}, size : FileSizes \cup {DefaultChunkSize}, slice : {TRUE}]

\* A record of one of these files, created less or more than 24 h ago.
StaleRecords ==
  { Merge(Merge(Blank, TempUpload(file)),
          [status |-> status, stale |-> old, file |-> FALSE]) :
      file \in StaleFiles, status \in UPLOAD_STATUS, old \in BOOLEAN }

InitStale ==
  \E ups \in StoresOf(MaxStale, StaleRecords) :
    /\ uploads = ups
    /\ ui = [isOffline |-> FALSE, isResuming |-> FALSE, error |-> "null"]
    /\ onLine = TRUE
    /\ blobs = {}
    /\ putLog = {}
    /\ server = <<>>
    /\ tasks = [s \in Slots |-> Idle]
    /\ ret = NoRet
    /\ clock = MaxAdds
    /\ retry = NoRetry

\* clearStaleUploads(file) of the store is called
ClearStale ==
  \E file \in StaleFiles :
    /\ uploads' = clearStaleUploads(uploads, file)
    /\ ret' = [op |-> "clearStaleUploads", id |-> NoId, how |-> "returned", val |-> NoId]
    /\ UNCHANGED <<ui, onLine, blobs, putLog, server, tasks, clock, retry>>

SpecStale == InitStale /\ [][ClearStale]_vars

----------------------------------------------------------------------------
(* One withRetry call, attempt by attempt, while connectivity comes and goes *)

\* withRetry(fn, {retries}) is called and invokes fn (lines 322-325).
\* uploadChunk calls it for POST chunk after it has found the client online
\* (lines 577-597); pauseUpload calls it for POST pause without such a test
\* (line 619).
WithRetryCall ==
  /\ retry.pc = "idle"
  /\ \E fn \in {"chunk", "pause"}, retries \in 0..MaxRetries :
       /\ fn = "chunk" => onLine
       /\ retry' = [NoRetry EXCEPT !.pc = "calling", !.fn = fn, !.retries = retries,
                                    !.calls = 1]
  /\ UNCHANGED <<uploads, ui, onLine, blobs, putLog, server, tasks, ret, clock>>

\* fn resolves: return await fn() (line 325); a response needs the network
FnResolves ==
  /\ retry.pc = "calling"
  /\ onLine
  /\ retry' = [retry EXCEPT !.pc = "returned"]
  /\ UNCHANGED <<uploads, ui, onLine, blobs, putLog, server, tasks, ret, clock>>

\* fn rejects (lines 326-331): with an HTTP status, or without a response
FnRejects ==
  /\ retry.pc = "calling"
  /\ \E status \in ErrorStatuses \cup {NoResponse}, k \in 0..(RandomSteps - 1) :
       /\ status # NoResponse => onLine
       /\ retry' =
            IF retry.attempt >= retry.retries \/ ~isRetryableError(status)
            THEN [retry EXCEPT !.pc = "threw", !.status = status]
            ELSE [retry EXCEPT !.pc = "sleeping", !.status = status,
                               !.delay = backoffDelay(retry.attempt, BackoffBase, BackoffMax, k)]
  /\ UNCHANGED <<uploads, ui, onLine, blobs, putLog, server, tasks, ret, clock>>

\* sleep(delay) ends: attempt++ and fn is invoked again (lines 323-325)
SleepEnds ==
  /\ retry.pc = "sleeping"
  /\ retry' = [retry EXCEPT !.pc = "calling", !.attempt = @ + 1, !.calls = @ + 1]
  /\ UNCHANGED <<uploads, ui, onLine, blobs, putLog, server, tasks, ret, clock>>

NextRetry ==
  \/ WithRetryCall
  \/ FnResolves
  \/ FnRejects
  \/ SleepEnds
  \/ Offline
  \/ Online

SpecRetry == Init /\ [][NextRetry]_vars

----------------------------------------------------------------------------
(* persist options of the store (part_002 lines 203-244) *)

\* A record without some of its keys.
Without(r, keys) == [f \in DOMAIN r \ keys |-> r[f]]

\* partialize that persists the records as they are.
partializeWithFile(ups) == [uploads |-> ups]

\* partialize (lines 205-213): const { file, ...rest } = u
partialize(ups) == [uploads |-> [id \in DOMAIN ups |-> Without(ups[id], {"file"})]]

\* JSON.stringify of the storage drops the keys whose value is undefined.
stringify(p) ==
  [uploads |-> [id \in DOMAIN p.uploads |->
     Without(p.uploads[id],
             {f \in DOMAIN p.uploads[id] \cap {"filename", "status", "lastError"} :
                p.uploads[id][f] = Undefined})]]

\* The store after the persisted state of the current version is merged
\* into the initial one: the records are the stored objects, in which a key
\* that is absent reads as undefined (file: no file).
rehydrate(json) ==
  [id \in DOMAIN json.uploads |->
     [f \in DOMAIN Blank |-> IF f \in DOMAIN json.uploads[id] THEN json.uploads[id][f]
                             ELSE Blank[f]]]

----------------------------------------------------------------------------
(* Claims *)

\* The chunk loops that are active for an id.
LoopsOf(id) == {s \in Slots : InLoop(tasks[s]) /\ tasks[s].id = id}

Terminal == {COMPLETED, FAILED, CANCELED}

\* C1: for every uploadId at most one chunk loop (an uploadChunks call that
\* has not returned) is active, in every reachable state.
C1_AtMostOneLoopPerId == \A id \in Ids : Cardinality(LoopsOf(id)) <= 1

\* C2: while the record of an id is COMPLETED, FAILED or CANCELED, no chunk
\* loop is active for that id (so no chunk POST is in flight or issued).
C2_TerminalHasNoLoop ==
  \A id \in DOMAIN uploads : uploads[id].status \in Terminal => LoopsOf(id) = {}

\* C3: every record that addUpload created and whose status is COMPLETED
\* has as many uploadedChunks as totalChunks.
C3_CompletedHasAllChunks ==
  \A id \in DOMAIN uploads :
    (HasCore(uploads[id]) /\ uploads[id].status = COMPLETED) =>
      Len(uploads[id].uploadedChunks) = uploads[id].totalChunks

\* C4: the uploadedChunks of every record are strictly increasing and lie
\* in [0, totalChunks).
C4_ChunksSortedInRange ==
  \A id \in DOMAIN uploads :
    LET c == uploads[id].uploadedChunks
    IN /\ \A i \in 1..(Len(c) - 1) : c[i] < c[i + 1]
       /\ \A i \in 1..Len(c) : 0 <= c[i] /\ c[i] < uploads[id].totalChunks

Max(a, b) == IF a > b THEN a ELSE b

\* C5: for every record that has progress fields, uploadedBytes is the sum
\* over its uploadedChunks of min(chunkSize, filesize - i * chunkSize) for
\* the record's own chunkSize and filesize, and progress is
\* 100 * uploadedBytes / filesize clamped to [0, 100] (in whole percent; 0
\* where the record has no filesize).
C5_BytesAndProgressDerived ==
  \A id \in DOMAIN uploads :
    LET r == uploads[id]
    IN r.hasProgress =>
         /\ r.uploadedBytes = SumBytes(r.uploadedChunks, r.chunkSize, r.filesize)
         /\ r.progress = IF r.filesize = 0 THEN 0
                         ELSE Max(0, Min(100, (100 * r.uploadedBytes) \div r.filesize))

\* The step installs the server's list in the record of id: refreshStatus
\* after a GET status that the server answered.
InstallsServerSet(id) ==
  \E s \in Slots :
    /\ tasks[s].id = id /\ tasks[s].pc \in RefreshPcs /\ tasks[s].resp.kind = "ok"
    /\ tasks'[s] # tasks[s]
    /\ uploads'[id].uploadedChunks = tasks[s].resp.chunks

\* C6: the uploadedChunks of a record lose an element only in a step of
\* refreshStatus that installs the server's set; every other step that
\* keeps the record (the chunk loop's progress update among them) leaves a
\* superset.
C6_OnlyRefreshShrinks ==
  [][\A id \in DOMAIN uploads \cap DOMAIN uploads' :
       Range(uploads[id].uploadedChunks) \subseteq Range(uploads'[id].uploadedChunks)
       \/ InstallsServerSet(id)]_vars

\* C7: when addUpload (initiateUpload) has thrown, the UI error is set and
\* no record is left under the temp_ id it created.
C7_FailedInitiateLeavesNoRecord ==
  (ret.op = "initiateUpload" /\ ret.how = "threw") =>
     (ui.error # "null" /\ ~Has(uploads, ret.id))

\* C8: when addUpload (initiateUpload) has returned, it returned the id the
\* server assigned, the temp_ record is gone, the record under the server id
\* is PENDING with empty uploadedChunks, and the blob was put under the
\* server id and never under the temp id (no put was made with the temp id
\* and no blob is stored under it).
C8_InitiateSuccess ==
  (ret.op = "initiateUpload" /\ ret.how = "returned") =>
     /\ ret.val \in DOMAIN server /\ ~startsWithTemp(ret.val)
     /\ ~Has(uploads, ret.id)
     /\ Has(uploads, ret.val)
     /\ uploads[ret.val].status = PENDING
     /\ uploads[ret.val].hasProgress /\ uploads[ret.val].uploadedChunks = <<>>
     /\ ret.val \in putLog
     /\ ret.id \notin putLog /\ ret.id \notin blobs

C8_Witness ==
  /\ ret.op = "initiateUpload" /\ ret.how = "returned"
  /\ Has(uploads, ret.val) /\ startsWithTemp(ret.id)

\* C9: the step in which cancelUpload(id) ends leaves no record for id; it
\* returns if the DELETE succeeded, and if the DELETE failed it records the
\* error and throws.
C9_CancelAlwaysRemoves ==
  [][\A s \in Slots :
       (tasks[s].pc = "cancel_delete" /\ tasks'[s] # tasks[s]) =>
          LET id == tasks[s].id
              deleted == Known(server, id) /\ ~Known(server', id)
          IN /\ ~Has(uploads', id)
             /\ ret'.op = "cancelUpload" /\ ret'.id = id
             /\ ret'.how = IF deleted THEN "returned" ELSE "threw"
             /\ ~deleted => ui'.error = "delete failed"]_vars

C9_Witness ==
  /\ ret.op = "cancelUpload" /\ ret.how = "threw"
  /\ ui.error = "delete failed" /\ ~Has(uploads, ret.id)
  /\ Known(server, ret.id)

\* The step ends the removeUpload call that awaited its DELETE in slot s.
RemoveEndsAfterDelete(s) == tasks[s].pc = "remove_delete" /\ tasks'[s] # tasks[s]

\* C10: removeUpload(id) on an existing record never throws and leaves no
\* record for id, also when its DELETE fails; the DELETE is sent if and only
\* if the id has no temp_ prefix and the record is not COMPLETED.
C10_RemoveNeverThrows ==
  [][/\ \A s \in Slots :
          \* a call that starts to await its DELETE
          (tasks[s].op = "idle" /\ tasks'[s].pc = "remove_delete") =>
             /\ ~startsWithTemp(tasks'[s].id)
             /\ uploads[tasks'[s].id].status # COMPLETED
     /\ \A s \in Slots :
          RemoveEndsAfterDelete(s) =>
             /\ ret'.op = "removeUpload" /\ ret'.how = "returned"
             /\ ~Has(uploads', tasks[s].id)
     /\ \* a call that ends without a DELETE
        (ret'.op = "removeUpload" /\ ~\E s \in Slots : RemoveEndsAfterDelete(s)) =>
             /\ ret'.how = "returned"
             /\ ~Has(uploads', ret'.id)
             /\ Has(uploads, ret'.id) =>
                  (startsWithTemp(ret'.id) \/ uploads[ret'.id].status = COMPLETED)]_vars

C10_Witness ==
  /\ ret.op = "removeUpload" /\ ret.how = "returned"
  /\ ~Has(uploads, ret.id)
  /\ Known(server, ret.id) /\ server[ret.id].status = "uploading"

\* C11: the step in which pauseUpload(id) ends leaves the record of id in
\* PAUSED and returns, it never throws; when POST pause has failed (the
\* server has not registered the pause) lastError is set as well.
C11_PauseAlwaysPauses ==
  [][\A s \in Slots :
       (tasks[s].pc = "pause_post" /\ tasks'[s] # tasks[s]) =>
          LET id == tasks[s].id
              failed == \/ ~Known(server', id)
                        \/ server'[id].status \notin {"paused", "completed"}
          IN /\ Has(uploads', id) /\ uploads'[id].status = PAUSED
             /\ ret'.op = "pauseUpload" /\ ret'.id = id /\ ret'.how = "returned"
             /\ failed => uploads'[id].lastError = EngineMessage("Pause error")]_vars

\* pauseUpload has ended on a record that was UPLOADING (its chunk loop is
\* still suspended) and POST pause had failed.
C11_Witness ==
  /\ ret.op = "pauseUpload" /\ ret.how = "returned"
  /\ Has(uploads, ret.id) /\ HasCore(uploads[ret.id])
  /\ uploads[ret.id].status = PAUSED
  /\ uploads[ret.id].lastError = EngineMessage("Pause error")
  /\ Known(server, ret.id) /\ server[ret.id].status = "uploading"
  /\ LoopsOf(ret.id) # {}

\* The resumeUpload calls that are past the guard and have not ended.
Resuming == {s \in Slots : tasks[s].op = "resumeUpload"}

\* The step is a resumeUpload call that ended in the run in which it was
\* made (no pending resumeUpload call ended in it).
ResumeReturnsAtOnce ==
  /\ ret'.op = "resumeUpload"
  /\ \A s \in Resuming : tasks'[s] = tasks[s]

\* C12: a resumeUpload call made while isResuming is set returns at once:
\* the server, the records and the pending calls are as before (no request,
\* no chunk loop) and the guard stays set; and never are two resumeUpload
\* calls past the guard at the same time.
C12_GuardedResume ==
  [][/\ (ui.isResuming /\ ResumeReturnsAtOnce) =>
          /\ ret'.how = "returned"
          /\ ui'.isResuming
          /\ server' = server /\ uploads' = uploads /\ tasks' = tasks
     /\ Cardinality(Resuming') <= 1]_vars

\* initAfterRehydrate is between setResuming(true) and its finally.
AutoResuming == {s \in Slots : tasks[s].op = "initAfterRehydrate" /\ InLoop(tasks[s])}

\* The step ends a resumeUpload call that had set the guard: a pending call
\* ends, or a call made offline with the guard free ends in the run of the
\* call (online, a call that has set the guard suspends; the calls that
\* handleOnline makes after it return at the guard).
ResumeEndsHavingGuard ==
  /\ ret'.op = "resumeUpload"
  /\ \/ \E s \in Resuming : tasks'[s].op # "resumeUpload"
     \/ ~ui.isResuming /\ ~onLine' /\ Has(uploads, ret'.id)

\* C13: the step in which a resumeUpload call that had set isResuming
\* returns or throws leaves isResuming false; and isResuming is false
\* whenever no resumeUpload call is pending and initAfterRehydrate is not in
\* its auto-resume.
C13_GuardReleased ==
  [][/\ ResumeEndsHavingGuard => ~ui'.isResuming
     /\ (Resuming' = {} /\ AutoResuming' = {}) => ~ui'.isResuming]_vars

\* resumeUpload has thrown (POST resume failed, or its chunk loop threw):
\* the record is PAUSED with the error and the guard is free.
C13_Witness ==
  /\ ret.op = "resumeUpload" /\ ret.how = "threw"
  /\ Has(uploads, ret.id) /\ uploads[ret.id].status = PAUSED
  /\ uploads[ret.id].lastError = EngineMessage("Resume error")
  /\ ~ui.isResuming
  /\ Resuming = {} /\ AutoResuming = {}

\* C14: once the online event has happened (handleOnline has called
\* resumeUpload for the records that were PAUSED, here all of them), every
\* record reaches COMPLETED with all its chunks, also when two records were
\* PAUSED.
C14_OnlineResumesAll ==
  onLine ~> (\A id \in DOMAIN uploads :
               /\ uploads[id].status = COMPLETED
               /\ Len(uploads[id].uploadedChunks) = uploads[id].totalChunks)

\* The indices 0 .. n-1 in order.
AllChunks(n) == [i \in 1..n |-> i - 1]

\* The step sends POST chunk from slot s (for tasks'[s].chunkIndex).
PostsChunk(s) ==
  /\ tasks'[s].pc = "chunks_chunk"
  /\ tasks[s].pc = "chunks_chunk" => tasks'[s].chunkIndex # tasks[s].chunkIndex

\* The step sends POST complete from slot s.
PostsComplete(s) == tasks'[s].pc = "chunks_complete" /\ tasks[s].pc # "chunks_complete"

StartPendingFor(id) == \E s \in Slots : tasks[s].op = "startUpload" /\ tasks[s].id = id

ChunkPosts(id) == {s \in Slots : tasks[s].pc = "chunks_chunk" /\ tasks[s].id = id}

\* C16: a chunk loop that goes from one chunk POST to the next posts a
\* higher index, and at most one chunk POST per id is in flight.
C16_ChunkPostsInOrder ==
  [][/\ \A s \in Slots :
          (tasks[s].pc = "chunks_chunk" /\ PostsChunk(s)) =>
             tasks'[s].chunkIndex > tasks[s].chunkIndex
     /\ \A id \in Ids : Cardinality(ChunkPosts(id)') <= 1]_vars

\* A read of the BlobStore is pending.
BlobCallPending == \E s \in Slots : tasks[s].pc \in IdbPcs

\* C17: when no BlobStore call is pending, the BlobStore holds a blob under
\* id exactly if the store has a record of id whose status is not COMPLETED.
C17_BlobIffLiveRecord ==
  ~BlobCallPending =>
    \A id \in Ids \cup DOMAIN uploads :
      id \in blobs <=> (Has(uploads, id) /\ uploads[id].status # COMPLETED)

\* The call awaits the answer to a request that names its uploadId.
RequestPcs ==
  RefreshPcs \cup {"chunks_chunk", "chunks_complete", "pause_post", "resume_post",
                   "cancel_delete", "remove_delete"}

\* C18: no request that names an uploadId (status, chunk, complete, pause,
\* resume, DELETE) is in flight for an id with the temp_ prefix.
C18_NoRequestWithTempId ==
  \A s \in Slots : tasks[s].pc \in RequestPcs => ~startsWithTemp(tasks[s].id)

\* C19: every record that addUpload created has
\* totalChunks = ceil(filesize / chunkSize), also when the initiate response
\* carried a chunkSize of its own, with or without totalChunks.
C19_TotalChunksIsCeil ==
  \A id \in DOMAIN uploads :
    HasCore(uploads[id]) =>
      uploads[id].totalChunks = Ceil(uploads[id].filesize, uploads[id].chunkSize)

\* C20: in every state, initiateUpload called with an empty file or with an
\* object without slice throws, is not left awaiting a request (no POST
\* initiate), and leaves the records, the BlobStore and the server as they
\* are: no record is created, not even a temp_ one.
C20_InvalidFileRejected ==
  \A file \in InvalidFiles :
    LET r == InitiateUploadCall(Called("initiateUpload", NoId), file)
    IN /\ r.ret.op = "initiateUpload" /\ r.ret.how = "threw"
       /\ r.task = Idle /\ r.spawn = Idle
       /\ r.uploads = uploads /\ r.blobs = blobs /\ r.server = server
       /\ r.clock = clock

\* initiateUpload has thrown for an invalid file: there is no record and
\* nothing is pending.
C20_Witness ==
  /\ ret.op = "initiateUpload" /\ ret.how = "threw"
  /\ ui.error = "Invalid file selected"
  /\ uploads = <<>> /\ server = <<>>
  /\ \A s \in Slots : tasks[s] = Idle

\* C21: when initAfterRehydrate awaits the BlobStore for a record and the
\* BlobStore has no blob for it, the run that follows the answer (null)
\* leaves the record PAUSED with needsFile and a lastError, and enters no
\* chunk loop for it.
C21_MissingBlobPauses ==
  \A s \in Slots :
    LET id == tasks[s].id
    IN (/\ tasks[s].pc = "boot_idb" /\ tasks[s].resp.kind = "absent"
        /\ Has(uploads, id) /\ HasCore(uploads[id])) =>
         LET r == BootRestored(Now(tasks[s]), "absent")
         IN /\ r.uploads[id].status = PAUSED
            /\ r.uploads[id].needsFile
            /\ r.uploads[id].lastError # Undefined
            /\ ~(InLoop(r.task) /\ r.task.id = id)

\* What the claim says of record r and file: it is to be removed.
IsStaleFor(r, file) ==
  /\ r.filename = file.name /\ r.filesize = file.size
  /\ (r.stale \/ r.status \in {FAILED, CANCELED})

\* C22: for every store and file, clearStaleUploads(file) yields the store
\* without the records of that file (same filename and filesize) that are
\* older than 24 h or FAILED or CANCELED, and with every other record as
\* it was.
C22_ClearStaleExact ==
  \A file \in StaleFiles :
    LET after == clearStaleUploads(uploads, file)
    IN /\ DOMAIN after = {id \in DOMAIN uploads : ~IsStaleFor(uploads[id], file)}
       /\ \A id \in DOMAIN after : after[id] = uploads[id]

\* clearStaleUploads has removed one of two records (the store had
\* id_1 and id_2) and has kept a COMPLETED record of a file "a" that is
\* younger than 24 h.
C22_Witness ==
  /\ ret.op = "clearStaleUploads"
  /\ DOMAIN uploads = {ServerId(2)}
  /\ uploads[ServerId(2)].status = COMPLETED
  /\ ~uploads[ServerId(2)].stale
  /\ uploads[ServerId(2)].filename = "a"

\* What the claim calls a retryable failure.
RetryableFailure(status) ==
  \/ status = NoResponse
  \/ status \in {408, 425, 429}
  \/ status \in 500..599

\* C23: withRetry invokes op at most retries + 1 times; it invokes op
\* again only after a retryable failure with attempts left; the failure of
\* the last attempt and a failure that is not retryable are rethrown as
\* they are, without another invocation; a success returns at once.
C23_WithRetry ==
  [][/\ retry'.calls <= retry'.retries + 1
     /\ (retry.pc = "calling" /\ retry'.pc = "sleeping") =>
          /\ RetryableFailure(retry'.status) /\ retry.calls <= retry.retries
          /\ retry'.calls = retry.calls
     /\ (retry.pc # "idle" /\ retry'.calls # retry.calls) =>
          /\ retry.pc = "sleeping" /\ retry'.pc = "calling"
          /\ retry'.calls = retry.calls + 1
     /\ (retry.pc = "calling" /\ retry'.pc \notin {"calling", "returned"}) =>
          IF ~RetryableFailure(retry'.status) \/ retry.calls = retry.retries + 1
          THEN retry'.pc = "threw" /\ retry'.calls = retry.calls
          ELSE retry'.pc = "sleeping"
     /\ retry.pc \in {"returned", "threw"} => retry' = retry
     /\ retry.pc = "sleeping" => retry'.pc \in {"sleeping", "calling"}]_vars

\* withRetry with the default retries = 5 has invoked op six times and has
\* rethrown the sixth failure, a retryable one.
C23_Witness ==
  /\ retry.pc = "threw" /\ retry.retries = DefaultRetries
  /\ retry.calls = DefaultRetries + 1
  /\ retry.status = 503

\* The values of base and max backoffDelay is checked for.
BackoffBases == {1, BackoffBase}
BackoffMaxes == {1, BackoffMax}

\* C24: for every attempt, base and max and every value of Math.random(),
\* backoffDelay returns a natural number below min(max, base * 2^attempt):
\* below 1000 for attempt 0 and below 30000 from attempt 5 on with the
\* defaults; the delay withRetry sleeps is such a number.
C24_BackoffInRange ==
  /\ \A attempt \in 0..MaxRetries, base \in BackoffBases, max \in BackoffMaxes,
        k \in 0..(RandomSteps - 1) :
        LET d == backoffDelay(attempt, base, max, k)
        IN /\ d \in Nat
           /\ d < max /\ d < base * 2^attempt
           /\ (base = 1000 /\ max = 30000 /\ attempt = 0) => d < 1000
           /\ (base = 1000 /\ max = 30000 /\ attempt >= 5) => d < 30000
  /\ retry.pc = "sleeping" =>
        /\ retry.delay \in Nat
        /\ retry.delay < BackoffMax /\ retry.delay < BackoffBase * 2^retry.attempt

\* withRetry sleeps after the failure of attempt 5 (retries = 6): the
\* delay is the largest one Math.random() gives under the cap of 30000.
C24_Witness ==
  /\ retry.pc = "sleeping" /\ retry.attempt = 5
  /\ retry.delay = (BackoffMax * (RandomSteps - 1)) \div RandomSteps

\* C25: the projection holds the uploads only (no ui), with every field of
\* every record except file; and the store loaded from what was stored
\* projects to the same stored value.
C25_ProjectionRoundTrip ==
  LET p == partialize(uploads)
      stored == stringify(p)
  IN /\ DOMAIN p = {"uploads"}
     /\ DOMAIN p.uploads = DOMAIN uploads
     /\ \A id \in DOMAIN uploads :
          /\ DOMAIN p.uploads[id] = DOMAIN uploads[id] \ {"file"}
          /\ \A f \in DOMAIN p.uploads[id] : p.uploads[id][f] = uploads[id][f]
     /\ stringify(partialize(rehydrate(stored))) = stored
     /\ \A id \in DOMAIN uploads :
          rehydrate(stored)[id] = [uploads[id] EXCEPT !.file = FALSE]

\* The store holds an UPLOADING record with its file in memory, chunk 0
\* uploaded and no lastError (a key the stored form does not have).
C25_Witness ==
  \E id \in DOMAIN uploads :
    /\ uploads[id].status = UPLOADING /\ uploads[id].file
    /\ uploads[id].uploadedChunks = <<0>>
    /\ uploads[id].lastError = Undefined

\* C26: a record whose status is COMPLETED, FAILED or CANCELED keeps that
\* status in every step that keeps the record; only its removal ends it.
C26_TerminalIsFinal ==
  [][\A id \in DOMAIN uploads :
       (uploads[id].status \in Terminal /\ id \in DOMAIN uploads')
         => uploads'[id].status = uploads[id].status]_vars

\* pauseUpload has just set the record of id to PAUSED, or cancelUpload has
\* just removed it.
JustStopped(id) ==
  \/ ret.op = "pauseUpload" /\ ret.id = id /\ Has(uploads, id) /\ uploads[id].status = PAUSED
  \/ ret.op = "cancelUpload" /\ ret.id = id /\ ~Has(uploads, id)

\* C27: when pauseUpload has set the record to PAUSED or cancelUpload has
\* removed it while a chunk loop of that id runs, the next step of that loop
\* sends no chunk POST and no POST complete and does not set the status to
\* COMPLETED or FAILED (the answer to the chunk POST in flight included).
C27_StoppedLoopSendsNothing ==
  [][\A s \in Slots :
       (InLoop(tasks[s]) /\ JustStopped(tasks[s].id)) =>
          /\ ~PostsChunk(s)
          /\ ~PostsComplete(s)
          /\ (tasks'[s] # tasks[s] /\ Has(uploads', tasks[s].id)) =>
                uploads'[tasks[s].id].status \notin {COMPLETED, FAILED}]_vars

\* C28: an entry appears under an id only as a record that addUpload
\* created (so, once a record is removed, nothing but a new addUpload puts
\* an entry under its id), and every entry of the store has an uploadId
\* and a status.
C28_NoEntryReCreated ==
  [][\A id \in DOMAIN uploads' :
       /\ ~Has(uploads, id) => HasCore(uploads'[id])
       /\ HasCore(uploads'[id])
       /\ uploads'[id].status # Undefined]_vars

C30_NoChunkPostOffline ==
  [][(retry'.fn = "chunk" /\ retry'.calls > retry.calls) => onLine]_vars

\* The smallest index of [0, n) that is not in S (n if there is none).
FirstMissing(S, n) ==
  IF \E i \in 0..(n - 1) : i \notin S
  THEN CHOOSE i \in 0..(n - 1) : i \notin S /\ \A j \in 0..(i - 1) : j \in S
  ELSE n

\* C31: a chunk loop posts only an index that the record's uploadedChunks
\* does not list when the loop reaches it; the loop that resumes from the
\* pre-loop refreshStatus with the server's answer S posts the smallest
\* index that is not in S.
C31_PostsOnlyMissingChunks ==
  [][\A s \in Slots :
       PostsChunk(s) =>
         LET id == tasks'[s].id
         IN /\ tasks'[s].chunkIndex \notin Range(uploads'[id].uploadedChunks)
            /\ tasks'[s].chunkIndex \notin Range(tasks'[s].snap)
            /\ (tasks[s].pc = "chunks_refresh" /\ tasks'[s].resp.kind = "ok") =>
                  /\ uploads'[id].uploadedChunks = tasks'[s].resp.chunks
                  /\ tasks'[s].chunkIndex =
                       FirstMissing(Range(tasks'[s].resp.chunks), tasks'[s].totalChunks)]_vars

\* The pre-loop refreshStatus installed S = {0} and the loop has posted
\* chunk 1 as its first chunk.
C31_Witness ==
  \E s \in Slots :
    /\ tasks[s].pc = "chunks_chunk" /\ tasks[s].chunkIndex = 1
    /\ tasks[s].resp.kind = "ok" /\ tasks[s].resp.chunks = <<0>>
    /\ tasks[s].snap = <<0>>

\* C32: a chunk loop that has passed every index awaits POST complete; when
\* the POST is answered the record is COMPLETED if the server accepted it,
\* and otherwise FAILED with lastError (and the UI error) set: never PAUSED.
C32_CompleteSetsFinalStatus ==
  [][\A s \in Slots :
       LET id == tasks[s].id
       IN /\ (InLoop(tasks'[s]) /\ tasks'[s].pc # "chunks_refresh"
                 /\ tasks'[s].chunkIndex >= tasks'[s].totalChunks)
               => tasks'[s].pc = "chunks_complete"
          /\ (tasks[s].pc = "chunks_complete" /\ tasks'[s] # tasks[s]) =>
                /\ Has(uploads', id)
                /\ uploads'[id].status \in {COMPLETED, FAILED}
                /\ uploads'[id].status = COMPLETED =>
                      /\ CanComplete(server, id)
                      /\ server'[id].status = "completed"
                /\ uploads'[id].status = FAILED =>
                      /\ uploads'[id].lastError # Undefined
                      /\ ui'.error = "complete failed"
                      /\ server' = server]_vars

\* startUpload has ended after its POST complete failed: the record that
\* lists both chunks is FAILED with lastError set.
C32_Witness ==
  /\ ret.op = "startUpload" /\ Has(uploads, ret.id)
  /\ HasCore(uploads[ret.id])
  /\ uploads[ret.id].status = FAILED
  /\ uploads[ret.id].uploadedChunks = <<0, 1>>
  /\ uploads[ret.id].lastError # Undefined
  /\ ui.error = "complete failed"

\* The step is the answer to the chunk POST of slot s, and the POST failed:
\* the server does not hold the index and has not got it in the step.
ChunkPostFails(s) ==
  /\ tasks[s].pc = "chunks_chunk" /\ tasks'[s] # tasks[s]
  /\ server' = server
  /\ ~Known(server, tasks[s].id) \/ tasks[s].chunkIndex \notin server[tasks[s].id].chunks

\* The step is one of the chunk loop of slot s that finds the client
\* offline at an iteration (it is not the step that sends POST complete).
LoopFindsOffline(s) ==
  /\ tasks[s].pc \in {"chunks_refresh", "chunks_idb", "chunks_chunk"}
  /\ tasks'[s] # tasks[s]
  /\ tasks[s].pc = "chunks_refresh" => tasks'[s].pc # "chunks_refresh"
  /\ ~onLine
  /\ tasks'[s].pc # "chunks_complete"

\* C33: when a chunk POST fails or the loop finds the client offline at an
\* iteration, the loop ends in that step (it posts no later chunk and no
\* complete) with the record PAUSED and lastError set; the failed index is
\* not added to uploadedChunks.
C33_FailedChunkPauses ==
  [][\A s \in Slots :
       LET id == tasks[s].id
       IN /\ (ChunkPostFails(s) \/ LoopFindsOffline(s)) =>
                /\ ~InLoop(tasks'[s])
                /\ Has(uploads', id)
                /\ uploads'[id].status = PAUSED
                /\ uploads'[id].lastError # Undefined
          /\ ChunkPostFails(s) =>
                uploads'[id].uploadedChunks = Entry(uploads, id).uploadedChunks]_vars

\* startUpload has returned online with the record PAUSED, lastError set
\* and chunk 0 only, which is all the server holds: the POST of chunk 1
\* failed.
C33_Witness ==
  /\ ret.op = "startUpload" /\ ret.how = "returned" /\ onLine
  /\ Has(uploads, ret.id) /\ HasCore(uploads[ret.id])
  /\ uploads[ret.id].status = PAUSED
  /\ uploads[ret.id].lastError # Undefined
  /\ uploads[ret.id].uploadedChunks = <<0>>
  /\ Known(server, ret.id) /\ server[ret.id].chunks = {0}
  /\ \A s \in Slots : tasks[s].op = "idle"

\* The step is a startUpload that ends in the run of its call.
StartUploadEndsAtOnce == ret'.op = "startUpload" /\ tasks' = tasks

\* C34: a startUpload that is called while the client is offline
\* (navigator.onLine false or isOffline set) ends at once: the record is
\* PAUSED with lastError set and is otherwise as it was, no request is sent
\* and no call stays pending.  A startUpload enters the chunk loop only with
\* the record UPLOADING and its blob in memory, and it does so in the run of
\* its call only when the client is online.
C34_StartUploadOffline ==
  [][/\ \A s \in Slots :
          (tasks[s].op = "idle" /\ tasks'[s].op = "startUpload") =>
             (onLine /\ ~ui.isOffline)
     /\ (ret'.op = "startUpload" /\ (~onLine \/ ui.isOffline)
           /\ \A s \in Slots : tasks[s].op = "startUpload" => tasks'[s] = tasks[s])
          => /\ StartUploadEndsAtOnce
             /\ ret'.how = "returned"
             /\ server' = server /\ blobs' = blobs
             /\ Has(uploads, ret'.id) =>
                   /\ uploads' = [uploads EXCEPT ![ret'.id].status = PAUSED,
                                                 ![ret'.id].lastError = uploads'[ret'.id].lastError]
                   /\ uploads'[ret'.id].lastError # Undefined
     /\ \A s \in Slots :
          (tasks'[s].op = "startUpload" /\ InLoop(tasks'[s]) /\ ~InLoop(tasks[s])) =>
             /\ uploads'[tasks'[s].id].status = UPLOADING
             /\ uploads'[tasks'[s].id].file]_vars

\* startUpload was called offline on a PENDING record: it has returned with
\* the record PAUSED and its own message as lastError; no chunk was sent.
C34_Witness ==
  /\ ret.op = "startUpload" /\ ret.how = "returned" /\ ~onLine
  /\ Has(uploads, ret.id) /\ HasCore(uploads[ret.id])
  /\ uploads[ret.id].status = PAUSED
  /\ uploads[ret.id].lastError = EngineMessage("You are offline. Upload paused.")
  /\ uploads[ret.id].uploadedChunks = <<>>
  /\ \A s \in Slots : tasks[s].op = "idle"

\* The step is the end of the BlobStore read that ensureFileAvailable
\* awaits for startUpload or uploadChunk in slot s.
EnsureFileSettles(s) ==
  /\ tasks[s].pc \in {"start_idb", "chunks_idb"}
  /\ tasks'[s] # tasks[s]

\* C35: when the BlobStore read of ensureFileAvailable ends without a
\* usable blob (none stored, or the read fails) the record is PAUSED with
\* needsFile = true and lastError set, the caller ends and no chunk POST is
\* sent; a read that fails this way is the only one that sets needsFile.
\* When the read gives a blob, the record holds the file with needsFile =
\* false, and startUpload, for which the result is true with lastError
\* cleared, goes on to the chunk loop.
C35_EnsureFileAvailable ==
  [][\A s \in Slots :
       EnsureFileSettles(s) =>
         LET id == tasks[s].id
             u == uploads'[id]
         IN /\ Has(uploads', id)
            /\ ~PostsChunk(s)
            /\ tasks[s].resp.kind = "absent" => u.needsFile
            /\ u.needsFile =>
                  /\ u.status = PAUSED
                  /\ u.lastError # Undefined
                  /\ ~InLoop(tasks'[s]) /\ tasks'[s].op # "startUpload"
                  /\ server' = server
            /\ ~u.needsFile =>
                  /\ tasks[s].resp.kind = "found"
                  /\ u.file
                  /\ tasks[s].pc = "start_idb" =>
                        /\ u.lastError = Undefined
                        /\ u.status = UPLOADING
                        /\ tasks'[s].pc = "chunks_refresh"]_vars

\* startUpload has returned after the BlobStore had no blob for a record
\* without a file in memory: PAUSED, needsFile = true, lastError set.
C35_Witness ==
  /\ ret.op = "startUpload" /\ ret.how = "returned" /\ onLine
  /\ Has(uploads, ret.id) /\ HasCore(uploads[ret.id])
  /\ ~uploads[ret.id].file /\ uploads[ret.id].needsFile
  /\ uploads[ret.id].status = PAUSED
  /\ uploads[ret.id].lastError # Undefined
  /\ ret.id \notin blobs

\* C36: the offline event sets isOffline and turns every UPLOADING record
\* into PAUSED with lastError 'offline', all its other fields unchanged; it
\* changes no other record and adds or removes none.
C36_OfflinePausesUploading ==
  [][(onLine /\ ~onLine') =>
       /\ ui'.isOffline
       /\ DOMAIN uploads' = DOMAIN uploads
       /\ \A id \in DOMAIN uploads :
            uploads'[id] = IF uploads[id].status = UPLOADING
                           THEN [uploads[id] EXCEPT !.status = PAUSED, !.lastError = "offline"]
                           ELSE uploads[id]]_vars

\* C37: when the BlobStore read that initAfterRehydrate awaits for a
\* PENDING, PAUSED or UPLOADING record without file ends without a blob
\* (none stored, or the read fails), the record is FAILED with lastError
\* set and the pass starts no chunk loop for it.
C37_MissingBlobFails ==
  [][\A s \in Slots :
       (tasks[s].pc = "boot_idb" /\ tasks'[s] # tasks[s]) =>
          LET id == tasks[s].id
          IN /\ Has(uploads', id)
             /\ (tasks[s].resp.kind = "absent" \/ uploads'[id].needsFile) =>
                   /\ uploads'[id].status = FAILED
                   /\ uploads'[id].lastError # Undefined
                   /\ uploads'[id].needsFile
                   /\ ~(InLoop(tasks'[s]) /\ tasks'[s].id = id)
                   /\ server' = server]_vars

\* initAfterRehydrate has returned and the record, whose blob the BlobStore
\* has lost, is FAILED with lastError set and has no file.
C37_Witness ==
  /\ ret.op = "initAfterRehydrate" /\ ret.how = "returned"
  /\ \E id \in DOMAIN uploads :
       /\ HasCore(uploads[id]) /\ id \notin blobs
       /\ uploads[id].status = FAILED
       /\ uploads[id].needsFile /\ ~uploads[id].file
       /\ uploads[id].lastError # Undefined

\* C38: a status GET of reconcileFromServer that fails sets lastError in
\* the record and nothing else (status and uploadedChunks are as before).
\* A pass of initAfterRehydrate takes the records one by one whatever
\* happens to each, ends only when none of its records is left to take,
\* and does end.
C38_PassGoesOn ==
  /\ [][\A s \in Slots :
          /\ tasks[s].pc = "boot_reconcile" =>
                LET id == tasks[s].id
                    r == reconcileFromServer(Now(tasks[s]), FALSE)
                IN /\ r.uploads = Put(uploads, id,
                                      [Entry(uploads, id) EXCEPT
                                         !.lastError = EngineMessage("Failed to reconcile status")])
                   /\ r.task = tasks[s] /\ r.ui = ui /\ r.server = server
          /\ tasks[s].op = "initAfterRehydrate" =>
                /\ (tasks'[s].op = "initAfterRehydrate" /\ tasks[s].pc # "called") =>
                      tasks'[s].todo \subseteq tasks[s].todo
                /\ tasks'[s].op # "initAfterRehydrate" =>
                      /\ ret'.op = "initAfterRehydrate" /\ ret'.how = "returned"
                      /\ (tasks[s].pc # "called") => (tasks[s].todo = {})]_vars
  /\ Booting ~> ~Booting

\* The pass has returned from a store of two records: the first one kept
\* its status COMPLETED and got lastError from a failed reconciliation, the
\* second one, whose blob is lost, was then marked FAILED.
C38_Witness ==
  /\ ret.op = "initAfterRehydrate" /\ ret.how = "returned"
  /\ DOMAIN uploads = {ServerId(1), ServerId(2)}
  /\ uploads[ServerId(1)].status = COMPLETED
  /\ uploads[ServerId(1)].lastError # Undefined
  /\ uploads[ServerId(1)].uploadedChunks = <<0, 1>>
  /\ uploads[ServerId(2)].status = FAILED
  /\ uploads[ServerId(2)].needsFile

\* C39: as long as a resumeUpload call that has set isResuming is pending,
\* isResuming is true: no step of another operation clears it.
C39_GuardHeld == Resuming # {} => ui.isResuming

\* The statuses that the operations write.
WrittenStatuses == {INITIATING, PENDING, UPLOADING, PAUSED, COMPLETED, FAILED}

\* C40: no record has the status CANCELED: the status of a record, if it
\* has one, is INITIATING, PENDING, UPLOADING, PAUSED, COMPLETED or FAILED;
\* and when cancelUpload has ended (returned or thrown) the store holds no
\* record under its uploadId.
C40_NeverCanceled ==
  /\ \A id \in DOMAIN uploads :
       /\ uploads[id].status # CANCELED
       /\ uploads[id].status \in WrittenStatuses \cup {Undefined}
  /\ ret.op = "cancelUpload" => ~Has(uploads, ret.id)

\* cancelUpload has returned for a record whose chunk loop is still
\* suspended: the record is gone, and so is its blob.
C40_Witness ==
  /\ ret.op = "cancelUpload" /\ ret.how = "returned"
  /\ ~Has(uploads, ret.id)
  /\ ret.id \notin blobs
  /\ LoopsOf(ret.id) # {}

====
